---- MODULE Spec2Model ----
(***************************************************************************)
(* State-machine model of the CONSORT flowchart builder's graph core       *)
(* (src/src/model/graph.ts): the GraphState value, the mutation operations *)
(* and recomputeGraph.                                                     *)
(*                                                                         *)
(* Conventions                                                             *)
(*   - ids are produced by nanoid(); the model draws them from the counter *)
(*     nextId, so every id is fresh and ids of nodes, intervals, reasons   *)
(*     and phases never collide.  Object.values() of an id-keyed map walks *)
(*     the keys in insertion order, which is ascending id order here.      *)
(*   - a nullable number (number | null | undefined) is the empty tuple    *)
(*     Null or the one-element tuple <<v>>; an optional exclusion likewise.*)
(*   - every node has column 0 (createInitialGraph and addNodeBelow are    *)
(*     the only writers), so the main flow is every node, ordered by y.    *)
(*   - textLines is the number of wrapped text lines of a node's body.     *)
(***************************************************************************)
EXTENDS Integers, Sequences, FiniteSets, TLC

VARIABLES graph, nextId, last, storeSettings, history, heap

vars == <<graph, nextId, last, storeSettings, history, heap>>

\* what the operations of the graph core leave alone: the store's settings
\* (state.settings), its undo history, and the objects behind the store's
\* graph and snapshots
storeVars == <<storeSettings, history, heap>>

(* ------------------------------ bounds --------------------------------- *)
\* children the start node may get in the branch specification
MaxChildren == 3
\* nodes a graph of any shape may hold
MaxNodes == 3
\* nodes a graph may hold in the exclusion specification (a linear chain)
MaxChain == 2
\* counts entered by the user are null or 0..MaxCount
MaxCount == 1
\* recomputeGraph is followed while the counts and totals it infers stay
\* within -MaxInferred..MaxInferred
MaxInferred == 2
\* user reasons per exclusion box
MaxReasons == 1
\* phases a graph may hold
MaxPhases == 2
\* ids nanoid() hands out before the model stops creating entities
MaxIds == 7
\* the same for the exclusion specification
MaxChainIds == 5
\* most ids handed out in the run of SpecDrift
MaxDriftIds == 11
\* most decimal digits of a formatted integer
MaxDigits == 7
\* the nodes and ids of the trees laid out, and the lines of a long text
MaxLayoutNodes == 5
MaxLayoutIds == 9
MaxTextLines == 5
\* undo snapshots the store specification lets history.past hold
MaxPast == 2

(* ------------------------- program constants --------------------------- *)
NoId == 0
LINE_HEIGHT == 20
NODE_MIN_HEIGHT == 120
\* BOX_WIDTH comes from model/constants; it and BRANCH_GAP_X are even, so
\* every centre is a whole number
BOX_WIDTH == 240
BRANCH_GAP_X == 32
LEVEL_GAP_Y == 64
NODE_VERTICAL_PADDING == 32
HISTORY_LIMIT == 100

(* --------------------------- nullable values --------------------------- *)
Null == <<>>
Some(v) == <<v>>
\* x ?? 0
OrZero(x) == IF x = Null THEN 0 ELSE x[1]
Max(a, b) == IF a >= b THEN a ELSE b
Min(a, b) == IF a <= b THEN a ELSE b

RECURSIVE SortedIds(_)
\* Object.values / Object.entries order of an id-keyed map
SortedIds(S) ==
  IF S = {} THEN <<>>
  ELSE LET m == CHOOSE x \in S : \A y \in S : x <= y
       IN <<m>> \o SortedIds(S \ {m})

SeqToSet(s) == {s[i] : i \in 1..Len(s)}

(* ------------------------------ entities ------------------------------- *)
createDefaultExclusion == [label |-> "Excluded", total |-> Null, reasons |-> <<>>]

NewNode == [n |-> Null, countOverride |-> "undefined", textLines |-> 1,
            x |-> 0, y |-> 0, childIds |-> <<>>]

createInitialGraph(startId) ==
  [nodes |-> (startId :> [NewNode EXCEPT !.n = Some(0)]),
   intervals |-> <<>>,
   phases |-> <<>>,
   startNodeId |-> startId,
   selectedId |-> startId]

NodeIds(g) == DOMAIN g.nodes
IntervalIds(g) == DOMAIN g.intervals
HasNode(g, id) == id \in DOMAIN g.nodes
\* node?.childIds ?? []
ChildIdsOf(g, id) == IF HasNode(g, id) THEN g.nodes[id].childIds ELSE <<>>
\* node?.n (undefined reads as null)
CountOf(g, id) == IF HasNode(g, id) THEN g.nodes[id].n ELSE Null
\* interval.exclusion?.total
TotalOf(interval) == IF interval.exclusion = Null THEN Null ELSE interval.exclusion[1].total

\* Object.values(graph.intervals).find(i => i.childId === nodeId)?.parentId
getParentId(g, nodeId) ==
  LET hits == {i \in IntervalIds(g) : g.intervals[i].childId = nodeId}
  IN IF hits = {} THEN NoId
     ELSE g.intervals[CHOOSE i \in hits : \A j \in hits : i <= j].parentId

(* ------------------------- exclusion reasons --------------------------- *)
IsUser(r) == r.kind = "user"
IsAuto(r) == r.kind = "auto"
UserReasonsOf(exclusion) == SelectSeq(exclusion.reasons, IsUser)
AutoReasonsOf(exclusion) == SelectSeq(exclusion.reasons, IsAuto)

RECURSIVE SumReasons(_)
\* reasons.reduce((acc, reason) => acc + (reason.n ?? 0), 0)
SumReasons(rs) == IF rs = <<>> THEN 0 ELSE OrZero(Head(rs).n) + SumReasons(Tail(rs))

\* remainder = total != null ? total - sumUser : null
RemainderOf(exclusion) ==
  IF exclusion.total = Null THEN Null
  ELSE Some(exclusion.total[1] - SumReasons(UserReasonsOf(exclusion)))

shouldShowAuto(exclusion) ==
  /\ Len(UserReasonsOf(exclusion)) > 0
  /\ RemainderOf(exclusion) # Null
  /\ RemainderOf(exclusion)[1] # 0

\* nanoid() runs only when the auto reason is shown and none exists yet
AllocatesAuto(exclusion) ==
  shouldShowAuto(exclusion) /\ AutoReasonsOf(exclusion) = <<>>

\* the exclusion after ensureOtherReason; fresh is the id nanoid() would give
ensureOtherReason(exclusion, fresh) ==
  IF ~shouldShowAuto(exclusion)
  THEN [exclusion EXCEPT !.reasons = UserReasonsOf(exclusion)]
  ELSE LET existing == AutoReasonsOf(exclusion)
           base == IF existing # <<>> THEN existing[1]
                   ELSE [id |-> fresh, label |-> "Other",
                         n |-> RemainderOf(exclusion), kind |-> "auto",
                         countOverride |-> "null"]
           autoReason == [base EXCEPT !.n = RemainderOf(exclusion),
                                      !.label = IF base.label = "" THEN "Other" ELSE base.label]
       IN [exclusion EXCEPT !.reasons = Append(UserReasonsOf(exclusion), autoReason)]

(* ------------------------------- layout -------------------------------- *)
\* wrapped text lines plus the count line
computeNodeHeight(node) ==
  Max(NODE_MIN_HEIGHT, (node.textLines + 1) * LINE_HEIGHT + NODE_VERTICAL_PADDING)

RECURSIVE computeWidth(_, _)
RECURSIVE sumWidths(_, _, _)
\* layoutTree's computeWidth: the slot of a leaf is its box, the slot of any
\* other node the larger of its box and its children's slots with the gaps.
\* getNodeDimensions gives every box the width BOX_WIDTH.
computeWidth(nodes, nodeId) ==
  IF nodeId \notin DOMAIN nodes THEN 0
  ELSE IF nodes[nodeId].childIds = <<>> THEN BOX_WIDTH
  ELSE Max(BOX_WIDTH, sumWidths(nodes, nodes[nodeId].childIds, 1))

\* children.forEach: total += BRANCH_GAP_X (index > 0), total += childWidth
sumWidths(nodes, childIds, index) ==
  IF index > Len(childIds) THEN 0
  ELSE (IF index > 1 THEN BRANCH_GAP_X ELSE 0)
         + computeWidth(nodes, childIds[index])
         + sumWidths(nodes, childIds, index + 1)

\* widths.get(childId) ?? BOX_WIDTH
widthOr(nodes, childId) ==
  IF childId \in DOMAIN nodes THEN computeWidth(nodes, childId) ELSE BOX_WIDTH

RECURSIVE totalWidthOf(_, _, _)
\* childWidths.reduce(...) + BRANCH_GAP_X * (childWidths.length - 1)
totalWidthOf(nodes, childIds, index) ==
  IF index > Len(childIds) THEN BRANCH_GAP_X * (Len(childIds) - 1)
  ELSE widthOr(nodes, childIds[index]) + totalWidthOf(nodes, childIds, index + 1)

\* the first slot starting at the parent's centre
assignChildrenStartUncentred(nodes, childIds, center) == center

\* let start = center - totalWidth / 2
assignChildrenStart(nodes, childIds, center) ==
  center - (totalWidthOf(nodes, childIds, 1) \div 2)

RECURSIVE assign(_, _, _, _)
RECURSIVE assignChildren(_, _, _, _, _)
\* layoutTree's assign: the position of nodeId and of its subtree
assign(nodes, nodeId, center, currentY) ==
  IF nodeId \notin DOMAIN nodes THEN nodes
  ELSE IF nodes[nodeId].childIds = <<>>
  THEN [nodes EXCEPT ![nodeId].x = center, ![nodeId].y = currentY]
  ELSE assignChildren([nodes EXCEPT ![nodeId].x = center, ![nodeId].y = currentY],
                      nodes[nodeId].childIds, 1,
                      assignChildrenStart(nodes, nodes[nodeId].childIds, center),
                      currentY + computeNodeHeight(nodes[nodeId]) + LEVEL_GAP_Y)

\* node.childIds.forEach: the child at the centre of its slot, then
\* start += childWidth + BRANCH_GAP_X
assignChildren(nodes, childIds, index, start, nextY) ==
  IF index > Len(childIds) THEN nodes
  ELSE LET childWidth == widthOr(nodes, childIds[index])
       IN assignChildren(assign(nodes, childIds[index], start + (childWidth \div 2), nextY),
                         childIds, index + 1, start + childWidth + BRANCH_GAP_X, nextY)

layoutTree(nodes, startNodeId) ==
  IF startNodeId = NoId \/ startNodeId \notin DOMAIN nodes THEN nodes
  ELSE assign(nodes, startNodeId, 0, 0)

\* drops child ids that resolve to no node, then lays the tree out
layoutGraphInPlace(g) ==
  LET kept == [id \in NodeIds(g) |->
                 [g.nodes[id] EXCEPT !.childIds =
                    SelectSeq(g.nodes[id].childIds, LAMBDA c : c \in NodeIds(g))]]
  IN [g EXCEPT !.nodes = layoutTree(kept, g.startNodeId)]

(* ------------------------------- phases -------------------------------- *)
RECURSIVE SortByY(_, _)
\* the ids of S ordered by position.y; Array.sort is stable, so equal y keep
\* the Object.values order
SortByY(nodes, S) ==
  IF S = {} THEN <<>>
  ELSE LET m == CHOOSE x \in S : \A z \in S :
                  \/ nodes[x].y < nodes[z].y
                  \/ (nodes[x].y = nodes[z].y /\ x <= z)
       IN <<m>> \o SortByY(nodes, S \ {m})

\* the main-flow nodes (column 0: every node) from top to bottom, as ids
getMainFlowNodes(g) == SortByY(g.nodes, NodeIds(g))

\* new Map(mainNodes.map((node, index) => [node.id, index])).get(id) ?? dflt
IndexOr(mainNodes, id, dflt) ==
  LET hits == {i \in 1..Len(mainNodes) : mainNodes[i] = id}
  IN IF hits = {} THEN dflt ELSE (CHOOSE i \in hits : \A j \in hits : i >= j) - 1

RECURSIVE reflowFrom(_, _, _, _)
\* the forEach of reflowPhaseRanges from phase `index` (0-based) on;
\* mainNodes[k].id with k out of range is a TypeError
reflowFrom(phases, mainNodes, index, previousEnd) ==
  IF index >= Len(phases) THEN [threw |-> FALSE, phases |-> phases]
  ELSE LET lastIndex == Len(mainNodes) - 1
           total == Len(phases)
           phase == phases[index + 1]
           s0 == IndexOr(mainNodes, phase.startNodeId, 0)
           e0 == IndexOr(mainNodes, phase.endNodeId, lastIndex)
           s1 == Max(0, Min(s0, lastIndex))
           e1 == Max(s1, Min(e0, lastIndex))
           minStart == previousEnd + 1
           s2 == IF s1 < minStart THEN minStart ELSE s1
           maxEndAllowed == lastIndex - (total - index - 1)
           endIndex == IF e1 > maxEndAllowed THEN maxEndAllowed ELSE e1
           s3 == IF s2 > maxEndAllowed THEN maxEndAllowed ELSE s2
           startIndex == IF s3 > endIndex THEN endIndex ELSE s3
       IN IF startIndex < 0 \/ startIndex > lastIndex \/ endIndex < 0 \/ endIndex > lastIndex
          THEN [threw |-> TRUE, phases |-> phases]
          ELSE reflowFrom([phases EXCEPT ![index + 1].startNodeId = mainNodes[startIndex + 1],
                                         ![index + 1].endNodeId = mainNodes[endIndex + 1]],
                          mainNodes, index + 1, endIndex)

reflowPhaseRanges(phases, mainNodes) ==
  IF phases = <<>> THEN [threw |-> FALSE, phases |-> phases]
  ELSE reflowFrom(phases, mainNodes, 0, -1)

normalizePhases(g) ==
  LET mainNodes == getMainFlowNodes(g)
  IN IF mainNodes = <<>> THEN [threw |-> FALSE, phases |-> <<>>]
     ELSE reflowPhaseRanges(g.phases, mainNodes)


(* ---------------------------- branch counts ---------------------------- *)
\* the last position of id in a sequence of ids (0 when absent)
PositionOf(ids, id) ==
  LET hits == {i \in 1..Len(ids) : ids[i] = id}
  IN IF hits = {} THEN 0 ELSE CHOOSE i \in hits : \A j \in hits : i >= j

\* the floor share alone, the remainder handed to nobody
shareAtFloor(baseShare, remainder, position) == baseShare

\* the value the forEach of initializeBranchChildren gives the child at
\* `position` (1-based): the floor share, plus one while remainder lasts
shareAt(baseShare, remainder, position) ==
  baseShare + (IF position <= remainder THEN 1 ELSE 0)

initializeBranchChildren(g, parentId) ==
  LET parent == g.nodes[parentId]
      childNodes == SelectSeq(parent.childIds, LAMBDA c : HasNode(g, c))
      totalChildren == Len(childNodes)
      anyAssigned == \E i \in 1..Len(childNodes) : g.nodes[childNodes[i]].n # Null
  IN IF Len(parent.childIds) < 2 \/ parent.n = Null \/ childNodes = <<>> \/ anyAssigned
     THEN g
     ELSE LET baseShare == parent.n[1] \div totalChildren
              remainder == parent.n[1] - baseShare * totalChildren
          IN [g EXCEPT !.nodes =
                [id \in NodeIds(g) |->
                   IF PositionOf(childNodes, id) > 0
                   THEN [g.nodes[id] EXCEPT
                           !.n = Some(shareAt(baseShare, remainder, PositionOf(childNodes, id)))]
                   ELSE g.nodes[id]]]

\* the sibling given the difference without the floor at zero
rebalancedCountUnfloored(parentN, updatedValue) == parentN - updatedValue

\* otherChild.n = remaining >= 0 ? remaining : 0
rebalancedCount(parentN, updatedValue) ==
  IF parentN - updatedValue >= 0 THEN parentN - updatedValue ELSE 0

rebalanceBranchAfterUpdate(g, parentId, updatedChildId) ==
  IF ~HasNode(g, parentId) THEN g
  ELSE LET parent == g.nodes[parentId]
           childIds == parent.childIds
           others == SelectSeq(childIds, LAMBDA c : c # updatedChildId)
       IN IF Len(childIds) # 2 \/ parent.n = Null THEN g
          ELSE IF ~HasNode(g, updatedChildId) \/ others = <<>> THEN g
          ELSE IF ~HasNode(g, others[1]) THEN g
          ELSE [g EXCEPT !.nodes[others[1]].n =
                           Some(rebalancedCount(parent.n[1], OrZero(g.nodes[updatedChildId].n))),
                         !.nodes[others[1]].countOverride = "undefined"]

(* ------------------------------ recompute ------------------------------ *)
\* intervalMap.get(`${parentId}:${childId}`): the last interval set for the pair
IntervalFor(g, parentId, childId) ==
  LET hits == {i \in IntervalIds(g) :
                 g.intervals[i].parentId = parentId /\ g.intervals[i].childId = childId}
  IN IF hits = {} THEN NoId ELSE CHOOSE i \in hits : \A j \in hits : i >= j

\* intervalMap.get(..)?.exclusion?.total ?? 0
ExclusionValue(g, parentId, childId) ==
  LET i == IntervalFor(g, parentId, childId)
  IN IF i = NoId THEN 0 ELSE OrZero(TotalOf(g.intervals[i]))

\* interval.exclusion, or what createDefaultExclusion() gives when absent
ExclusionOrNew(interval) ==
  IF interval.exclusion = Null THEN createDefaultExclusion ELSE interval.exclusion[1]

RECURSIVE recomputeExclusionsKeepingBranch(_, _, _)
\* the first loop with the exclusion of a branch interval left in place
recomputeExclusionsKeepingBranch(g, ids, fresh) ==
  IF ids = <<>> THEN [graph |-> g, nextId |-> fresh]
  ELSE LET id == Head(ids)
           exclusion == ExclusionOrNew(g.intervals[id])
       IN recomputeExclusionsKeepingBranch(
            [g EXCEPT !.intervals[id].exclusion = Some(ensureOtherReason(exclusion, fresh))],
            Tail(ids),
            IF AllocatesAuto(exclusion) THEN fresh + 1 ELSE fresh)

RECURSIVE recomputeExclusionsClearingTotal(_, _, _)
\* the first loop with only the total of a branch interval's exclusion cleared
recomputeExclusionsClearingTotal(g, ids, fresh) ==
  IF ids = <<>> THEN [graph |-> g, nextId |-> fresh]
  ELSE LET id == Head(ids)
           interval == g.intervals[id]
           isBranchInterval == Len(ChildIdsOf(g, interval.parentId)) > 1
           exclusion == ExclusionOrNew(interval)
       IN IF isBranchInterval
          THEN recomputeExclusionsClearingTotal(
                 [g EXCEPT !.intervals[id].exclusion = Some([exclusion EXCEPT !.total = Null])],
                 Tail(ids), fresh)
          ELSE recomputeExclusionsClearingTotal(
                 [g EXCEPT !.intervals[id].exclusion = Some(ensureOtherReason(exclusion, fresh))],
                 Tail(ids),
                 IF AllocatesAuto(exclusion) THEN fresh + 1 ELSE fresh)

RECURSIVE recomputeExclusions(_, _, _)
\* first loop: a branch interval loses its exclusion, any other interval gets
\* a default one if it has none and then ensureOtherReason
recomputeExclusions(g, ids, fresh) ==
  IF ids = <<>> THEN [graph |-> g, nextId |-> fresh]
  ELSE LET id == Head(ids)
           interval == g.intervals[id]
           isBranchInterval == Len(ChildIdsOf(g, interval.parentId)) > 1
           exclusion == IF interval.exclusion = Null THEN createDefaultExclusion
                        ELSE interval.exclusion[1]
       IN IF isBranchInterval
          THEN recomputeExclusions([g EXCEPT !.intervals[id].exclusion = Null], Tail(ids), fresh)
          ELSE recomputeExclusions(
                 [g EXCEPT !.intervals[id].exclusion = Some(ensureOtherReason(exclusion, fresh))],
                 Tail(ids),
                 IF AllocatesAuto(exclusion) THEN fresh + 1 ELSE fresh)

RECURSIVE recomputeSplits(_, _, _)
\* second loop: the even split of every branching parent, unless free edit
recomputeSplits(g, ids, settings) ==
  IF ids = <<>> THEN g
  ELSE recomputeSplits(
         IF Len(g.nodes[Head(ids)].childIds) > 1 /\ ~settings.freeEdit
         THEN initializeBranchChildren(g, Head(ids)) ELSE g,
         Tail(ids), settings)

RECURSIVE SumOtherChildren(_, _, _, _)
\* what the childIds.forEach takes off `remaining` for the children before the last
SumOtherChildren(g, parentId, childIds, index) ==
  IF index >= Len(childIds) THEN 0
  ELSE OrZero(CountOf(g, childIds[index])) + ExclusionValue(g, parentId, childIds[index])
       + SumOtherChildren(g, parentId, childIds, index + 1)

\* the last child filled with the value floored at zero
lastChildFillClamped(value) == Some(Max(0, value))

\* if (value >= 0) lastChildNode.n = value
lastChildFill(value) == IF value >= 0 THEN Some(value) ELSE Null

autoFillLastChild(g, nodeId) ==
  LET node == g.nodes[nodeId]
      childIds == node.childIds
  IN IF ~(Len(childIds) > 1 /\ node.n # Null) THEN g
     ELSE LET lastChildId == childIds[Len(childIds)]
              remaining == node.n[1] - SumOtherChildren(g, nodeId, childIds, 1)
              adjustment == ExclusionValue(g, nodeId, lastChildId)
          IN IF HasNode(g, lastChildId) /\ g.nodes[lastChildId].n = Null
             THEN [g EXCEPT !.nodes[lastChildId].n = lastChildFill(remaining - adjustment)]
             ELSE g

RECURSIVE recomputeAutoFill(_, _)
\* third loop (autoCalc and not free edit): the last child of a branch
recomputeAutoFill(g, ids) ==
  IF ids = <<>> THEN g ELSE recomputeAutoFill(autoFillLastChild(g, Head(ids)), Tail(ids))

RECURSIVE SumChildren(_, _)
SumChildren(g, childIds) ==
  IF childIds = <<>> THEN 0
  ELSE OrZero(CountOf(g, Head(childIds))) + SumChildren(g, Tail(childIds))

\* delta of a parent with more than one child, set on every sibling interval
branchDelta(g, parentId) ==
  LET parent == g.nodes[parentId]
      entries == SelectSeq(parent.childIds, LAMBDA c : IntervalFor(g, parentId, c) # NoId)
      diff == OrZero(parent.n) - SumChildren(g, entries)
      hit == {IntervalFor(g, parentId, c) : c \in SeqToSet(entries)}
  IN [g EXCEPT !.intervals =
        [i \in IntervalIds(g) |->
           IF i \in hit THEN [g.intervals[i] EXCEPT !.delta = diff] ELSE g.intervals[i]]]

\* the total inferred whatever the sign of the difference
inferredTotalAnySign(parentN, childN) == Some(parentN - childN)

\* interval.exclusion.total = diff > 0 ? diff : null
inferredTotal(parentN, childN) ==
  IF parentN - childN > 0 THEN Some(parentN - childN) ELSE Null

\* the child given its parent's count, the exclusion total left out
inferredChildIgnoringTotal(parentN, total) == parentN

\* childNode.n = parentNode.n - interval.exclusion.total
inferredChild(parentN, total) == parentN - total

\* interval.delta = parentValue - (childValue + exclusionValue)
\* the linear delta with the exclusion total left out
linearDeltaWithoutExclusion(parentValue, childValue, exclusionValue) ==
  parentValue - childValue

linearDelta(parentValue, childValue, exclusionValue) ==
  parentValue - (childValue + exclusionValue)

\* the single-child block: two-way inference in auto mode, then the delta
linearStep(g, parentId, settings) ==
  LET parent == g.nodes[parentId]
      childId == parent.childIds[1]
      i == IntervalFor(g, parentId, childId)
  IN IF i = NoId THEN g
     ELSE LET total == TotalOf(g.intervals[i])
              childN == CountOf(g, childId)
              auto == settings.autoCalc /\ ~settings.freeEdit /\ parent.n # Null
              g1 == IF auto /\ total = Null /\ childN # Null
                    THEN [g EXCEPT !.intervals[i].exclusion =
                            Some([g.intervals[i].exclusion[1] EXCEPT
                                    !.total = inferredTotal(parent.n[1], childN[1])])]
                    ELSE IF auto /\ total # Null /\ childN = Null
                    THEN [g EXCEPT !.nodes[childId].n = Some(inferredChild(parent.n[1], total[1]))]
                    ELSE g
          IN [g1 EXCEPT !.intervals[i].delta =
                linearDelta(OrZero(g1.nodes[parentId].n), OrZero(CountOf(g1, childId)),
                            OrZero(TotalOf(g1.intervals[i])))]

RECURSIVE recomputeDeltas(_, _, _)
\* fourth loop: per parent, the even split again and the branch delta, or the
\* linear step
recomputeDeltas(g, ids, settings) ==
  IF ids = <<>> THEN g
  ELSE LET id == Head(ids)
           childIds == g.nodes[id].childIds
           next == IF childIds = <<>> THEN g
                   ELSE IF Len(childIds) > 1
                   THEN branchDelta(IF ~settings.freeEdit THEN initializeBranchChildren(g, id) ELSE g, id)
                   ELSE linearStep(g, id, settings)
       IN recomputeDeltas(next, Tail(ids), settings)

\* recomputeGraph(graph, settings): threw when normalizePhases throws;
\* nextId is the id counter after the auto reasons it created
\* recomputeGraph with settings.freeEdit never consulted
recomputeGraphInFreeEditToo(g, settings, fresh) ==
  LET always == [settings EXCEPT !.freeEdit = FALSE]
      a == recomputeExclusions(g, SortedIds(IntervalIds(g)), fresh)
      order == SortedIds(NodeIds(g))
      b == recomputeSplits(a.graph, order, always)
      c == IF always.autoCalc THEN recomputeAutoFill(b, order) ELSE b
      d == recomputeDeltas(c, order, always)
      e == layoutGraphInPlace(d)
      p == normalizePhases(e)
  IN [threw |-> p.threw,
      graph |-> [e EXCEPT !.phases = p.phases],
      nextId |-> a.nextId]

recomputeGraph(g, settings, fresh) ==
  LET a == recomputeExclusions(g, SortedIds(IntervalIds(g)), fresh)
      order == SortedIds(NodeIds(g))
      b == recomputeSplits(a.graph, order, settings)
      c == IF settings.autoCalc /\ ~settings.freeEdit THEN recomputeAutoFill(b, order) ELSE b
      d == recomputeDeltas(c, order, settings)
      e == layoutGraphInPlace(d)
      p == normalizePhases(e)
  IN [threw |-> p.threw,
      graph |-> [e EXCEPT !.phases = p.phases],
      nextId |-> a.nextId]


(* ------------------------- mutation operations ------------------------- *)
\* addNodeBelow with the new node put first among the parent's children
addNodeBelowInFront(g, parentId, fresh) ==
  LET withNode == [g EXCEPT
        !.nodes = (fresh :> NewNode) @@ g.nodes,
        !.intervals = ((fresh + 1) :> [parentId |-> parentId, childId |-> fresh,
                                        exclusion |-> Some(createDefaultExclusion),
                                        delta |-> 0]) @@ g.intervals]
      linked == [withNode EXCEPT !.nodes[parentId].childIds = <<fresh>> \o @,
                                 !.selectedId = fresh]
  IN layoutGraphInPlace(linked)

\* addNodeBelow for an existing parent: the node takes id `fresh`, its
\* interval `fresh + 1`
addNodeBelow(g, parentId, fresh) ==
  LET withNode == [g EXCEPT
        !.nodes = (fresh :> NewNode) @@ g.nodes,
        !.intervals = ((fresh + 1) :> [parentId |-> parentId, childId |-> fresh,
                                        exclusion |-> Some(createDefaultExclusion),
                                        delta |-> 0]) @@ g.intervals]
      linked == [withNode EXCEPT !.nodes[parentId].childIds = Append(@, fresh),
                                 !.selectedId = fresh]
  IN layoutGraphInPlace(linked)

\* updateNodeText for an existing node: node.textLines = textLines, here the
\* number of lines the text wraps to; no layout follows
updateNodeText(g, nodeId, textLines) ==
  [g EXCEPT !.nodes[nodeId].textLines = textLines]

\* updateNodeCount for an existing node; override "undefined" leaves
\* countOverride alone
updateNodeCount(g, nodeId, n, override, skipBranchRebalance) ==
  LET edited == [g EXCEPT !.nodes[nodeId].n = n,
                          !.nodes[nodeId].countOverride =
                             IF override # "undefined" THEN override ELSE @]
      parentId == getParentId(edited, nodeId)
  IN IF ~skipBranchRebalance /\ parentId # NoId
     THEN rebalanceBranchAfterUpdate(edited, parentId, nodeId)
     ELSE edited

\* interval.exclusion, created with the defaults when absent
ExclusionOrDefault(interval) ==
  IF interval.exclusion = Null THEN createDefaultExclusion ELSE interval.exclusion[1]

\* updateExclusionCount for an existing interval, without an override
updateExclusionCount(g, intervalId, n) ==
  [g EXCEPT !.intervals[intervalId].exclusion =
     Some([ExclusionOrDefault(g.intervals[intervalId]) EXCEPT !.total = n])]

\* the exclusion with a new empty user reason pushed, before ensureOtherReason
WithNewReason(exclusion, fresh) ==
  [exclusion EXCEPT !.reasons =
     Append(@, [id |-> fresh, label |-> "", n |-> Null, kind |-> "user",
                countOverride |-> "undefined"])]

\* addExclusionReason for an existing interval: the reason takes id `fresh`
addExclusionReason(g, intervalId, fresh) ==
  [g EXCEPT !.intervals[intervalId].exclusion =
     Some(ensureOtherReason(
            WithNewReason(ExclusionOrDefault(g.intervals[intervalId]), fresh), fresh + 1))]

ReasonIds(exclusion) == {exclusion.reasons[k].id : k \in 1..Len(exclusion.reasons)}

\* the position of reasons.find(item => item.id === reasonId)
ReasonIndex(exclusion, reasonId) ==
  CHOOSE k \in 1..Len(exclusion.reasons) :
    /\ exclusion.reasons[k].id = reasonId
    /\ \A j \in 1..(k - 1) : exclusion.reasons[j].id # reasonId

\* updateExclusionReasonLabel for an existing reason, of either kind
updateExclusionReasonLabel(g, intervalId, reasonId, label, fresh) ==
  LET exclusion == g.intervals[intervalId].exclusion[1]
      k == ReasonIndex(exclusion, reasonId)
  IN [g EXCEPT !.intervals[intervalId].exclusion =
        Some(ensureOtherReason([exclusion EXCEPT !.reasons[k].label = label], fresh))]

\* the reason with the override stored: if (override !== undefined)
WithOverride(exclusion, k, override) ==
  IF override # "undefined"
  THEN [exclusion EXCEPT !.reasons[k].countOverride = override]
  ELSE exclusion

\* updateExclusionReasonCount for an existing reason: the override is stored
\* first, then an auto reason is left as it is
updateExclusionReasonCount(g, intervalId, reasonId, value, override, fresh) ==
  LET exclusion == g.intervals[intervalId].exclusion[1]
      k == ReasonIndex(exclusion, reasonId)
      stored == WithOverride(exclusion, k, override)
  IN IF exclusion.reasons[k].kind = "auto"
     THEN [g EXCEPT !.intervals[intervalId].exclusion = Some(stored)]
     ELSE [g EXCEPT !.intervals[intervalId].exclusion =
             Some(ensureOtherReason([stored EXCEPT !.reasons[k].n = value], fresh))]

\* the exclusion without reason reasonId, before ensureOtherReason
WithoutReason(exclusion, reasonId) ==
  [exclusion EXCEPT !.reasons = SelectSeq(@, LAMBDA r : r.id # reasonId)]

\* removeExclusionReason for an interval that has an exclusion
removeExclusionReason(g, intervalId, reasonId, fresh) ==
  [g EXCEPT !.intervals[intervalId].exclusion =
     Some(ensureOtherReason(WithoutReason(g.intervals[intervalId].exclusion[1], reasonId),
                            fresh))]

RECURSIVE collect(_, _, _)
RECURSIVE collectAll(_, _, _)
\* the node alone, its children not followed
collectShallow(g, id, seen) == seen \cup {id}

\* removeNode's collect: id and every node reached through childIds
collect(g, id, seen) ==
  IF id \in seen THEN seen ELSE collectAll(g, ChildIdsOf(g, id), seen \cup {id})

collectAll(g, ids, seen) ==
  IF ids = <<>> THEN seen ELSE collectAll(g, Tail(ids), collect(g, Head(ids), seen))

\* the intervals kept when only the parent side is tested
survivingIntervalsByParent(g, nodesToRemove) ==
  {i \in IntervalIds(g) : g.intervals[i].parentId \notin nodesToRemove}

\* the intervals removeNode keeps
survivingIntervals(g, nodesToRemove) ==
  {i \in IntervalIds(g) : /\ g.intervals[i].childId \notin nodesToRemove
                          /\ g.intervals[i].parentId \notin nodesToRemove}

\* the removal without the test for the start node
removeNodeUnguarded(g, nodeId) ==
  LET nodesToRemove == collect(g, nodeId, {})
      keptIntervals == survivingIntervals(g, nodesToRemove)
  IN layoutGraphInPlace(
       [g EXCEPT !.intervals = [i \in keptIntervals |-> g.intervals[i]],
                 !.nodes = [id \in NodeIds(g) \ nodesToRemove |-> g.nodes[id]],
                 !.selectedId = IF getParentId(g, nodeId) # NoId
                                THEN getParentId(g, nodeId) ELSE g.startNodeId])

removeNode(g, nodeId) ==
  IF g.startNodeId = nodeId THEN g
  ELSE LET parentId == getParentId(g, nodeId)
           nodesToRemove == collect(g, nodeId, {})
           keptIntervals == survivingIntervals(g, nodesToRemove)
           keptNodes == NodeIds(g) \ nodesToRemove
           pruned == [g EXCEPT
             !.intervals = [i \in keptIntervals |-> g.intervals[i]],
             !.nodes = [id \in keptNodes |->
                          IF id = parentId
                          THEN [g.nodes[id] EXCEPT !.childIds =
                                  SelectSeq(@, LAMBDA c : c \notin nodesToRemove)]
                          ELSE g.nodes[id]],
             !.selectedId = IF parentId # NoId THEN parentId ELSE g.startNodeId]
       IN layoutGraphInPlace(pruned)

\* addPhase: the phase takes id `fresh`; threw when a reflow throws
addPhase(g, fresh) ==
  LET mainNodes == getMainFlowNodes(g)
      lastIndex == Len(mainNodes) - 1
      first == reflowPhaseRanges(g.phases, mainNodes)
      existingPhases == first.phases
      lastExistingEnd ==
        IF existingPhases = <<>> THEN -1
        ELSE IndexOr(mainNodes, existingPhases[Len(existingPhases)].endNodeId, lastIndex)
      newStartIndex == Min(lastIndex, Max(0, lastExistingEnd + 1))
      newPhase == [id |-> fresh, startNodeId |-> mainNodes[newStartIndex + 1],
                   endNodeId |-> mainNodes[lastIndex + 1]]
      second == reflowPhaseRanges(Append(existingPhases, newPhase), mainNodes)
  IN IF mainNodes = <<>> THEN [threw |-> FALSE, graph |-> g]
     ELSE IF first.threw \/ second.threw THEN [threw |-> TRUE, graph |-> g]
     ELSE [threw |-> FALSE, graph |-> [g EXCEPT !.phases = second.phases, !.selectedId = fresh]]

PhaseIds(g) == {g.phases[k].id : k \in 1..Len(g.phases)}

\* updatePhaseBounds for an existing phase
updatePhaseBounds(g, phaseId, startNodeId, endNodeId) ==
  LET mainNodes == getMainFlowNodes(g)
      startIndex == IndexOr(mainNodes, startNodeId, 0)
      endIndex == IndexOr(mainNodes, endNodeId, startIndex)
      k == CHOOSE j \in 1..Len(g.phases) :
             g.phases[j].id = phaseId /\ \A h \in 1..(j - 1) : g.phases[h].id # phaseId
  IN IF mainNodes = <<>> THEN g
     ELSE [g EXCEPT !.phases[k].startNodeId = mainNodes[Min(startIndex, endIndex) + 1],
                    !.phases[k].endNodeId = mainNodes[Max(startIndex, endIndex) + 1]]

\* removePhase with the selection left where it was
removePhaseKeepingSelection(g, phaseId) ==
  [g EXCEPT !.phases = SelectSeq(@, LAMBDA ph : ph.id # phaseId)]

\* removePhase(graph, phaseId)
removePhase(g, phaseId) ==
  [g EXCEPT !.phases = SelectSeq(@, LAMBDA ph : ph.id # phaseId),
            !.selectedId = IF @ = phaseId THEN g.startNodeId ELSE @]


(* ------------------------------ selection ------------------------------ *)
\* setSelected(graph, id); NoId is undefined
setSelected(g, id) == [g EXCEPT !.selectedId = id]

\* getSelectionKind(graph)
getSelectionKind(g) ==
  IF g.selectedId = NoId THEN "undefined"
  ELSE IF g.selectedId \in NodeIds(g) THEN "node"
  ELSE IF g.selectedId \in IntervalIds(g) THEN "interval"
  ELSE IF g.selectedId \in PhaseIds(g) THEN "phase"
  ELSE "undefined"

\* GraphNavigation.getIntervalId: the first interval from parentId to childId
getIntervalId(g, parentId, childId) ==
  LET hits == {i \in IntervalIds(g) :
                 g.intervals[i].parentId = parentId /\ g.intervals[i].childId = childId}
  IN IF hits = {} THEN NoId ELSE CHOOSE i \in hits : \A j \in hits : i <= j

Directions == {"up", "down", "left", "right"}

\* navigateFromNode with 'right' going to the first child, not to its interval
navigateFromNodeToChild(g, nodeId, direction) ==
  LET node == g.nodes[nodeId]
      parentId == getParentId(g, nodeId)
  IN IF direction = "up" THEN (IF parentId # NoId THEN parentId ELSE nodeId)
     ELSE IF direction \in {"down", "right"}
     THEN (IF node.childIds # <<>> THEN node.childIds[1] ELSE nodeId)
     ELSE IF parentId # NoId
          THEN (IF getIntervalId(g, parentId, nodeId) # NoId
                THEN getIntervalId(g, parentId, nodeId) ELSE parentId)
          ELSE nodeId

\* navigateFromNode for a node of the graph
navigateFromNode(g, nodeId, direction) ==
  LET node == g.nodes[nodeId]
      parentId == getParentId(g, nodeId)
  IN IF direction = "up" THEN (IF parentId # NoId THEN parentId ELSE nodeId)
     ELSE IF direction = "down"
     THEN (IF node.childIds # <<>> THEN node.childIds[1] ELSE nodeId)
     ELSE IF direction = "left"
     THEN (IF parentId # NoId
           THEN (IF getIntervalId(g, parentId, nodeId) # NoId
                 THEN getIntervalId(g, parentId, nodeId) ELSE parentId)
           ELSE nodeId)
     ELSE IF node.childIds # <<>>
          THEN (IF getIntervalId(g, nodeId, node.childIds[1]) # NoId
                THEN getIntervalId(g, nodeId, node.childIds[1]) ELSE node.childIds[1])
          ELSE nodeId

\* navigateFromInterval for an interval of the graph
navigateFromInterval(g, intervalId, direction) ==
  IF direction \in {"up", "left"} THEN g.intervals[intervalId].parentId
  ELSE g.intervals[intervalId].childId

\* navigateSelection(graph, direction); NoId is undefined
navigateSelection(g, direction) ==
  LET kind == getSelectionKind(g)
  IN IF kind = "node" THEN navigateFromNode(g, g.selectedId, direction)
     ELSE IF kind = "interval" THEN navigateFromInterval(g, g.selectedId, direction)
     ELSE IF kind = "phase" THEN g.selectedId
     ELSE NoId

(* ------------------------------- objects -------------------------------- *)
\* The GraphState objects the store holds, by address. A GraphState object
\* refers to three mutable parts: its nodes map with the node objects, its
\* intervals map with the intervals, exclusions and reasons, and its phases
\* array with the phase objects. refs gives the address of each part; cells
\* gives what is stored at an address, part by part.
RefsAt(a) == [nodes |-> a, intervals |-> a, phases |-> a]

\* the parts of a GraphState value
PartsOf(g) == [nodes |-> g.nodes, intervals |-> g.intervals, phases |-> g.phases]

\* what the object with these refs holds
Deref(cells, refs) ==
  [nodes |-> cells.nodes[refs.nodes],
   intervals |-> cells.intervals[refs.intervals],
   phases |-> cells.phases[refs.phases]]

\* a new object at address a holding the parts given
Allocate(cells, a, parts) ==
  [nodes |-> (a :> parts.nodes) @@ cells.nodes,
   intervals |-> (a :> parts.intervals) @@ cells.intervals,
   phases |-> (a :> parts.phases) @@ cells.phases]

\* the objects of a store whose graph is g and whose history is empty
HeapOf(g) ==
  [cells |-> Allocate([nodes |-> <<>>, intervals |-> <<>>, phases |-> <<>>], 1, PartsOf(g)),
   current |-> RefsAt(1), input |-> RefsAt(1), past |-> <<>>, future |-> <<>>]

\* the first address not in use
Fresh(used) == CHOOSE a \in 1..(Cardinality(used) + 1) : a \notin used

\* cloneGraph with the intervals map of the input reused, not cloned
cloneGraphSharingIntervals(cells, refs, a) ==
  [cells |-> Allocate(cells, a, Deref(cells, refs)),
   refs |-> [RefsAt(a) EXCEPT !.intervals = refs.intervals]]

\* cloneGraph(graph): nodes and intervals are structuredClone'd and every
\* phase is copied, so the clone at address a shares no part with its input
cloneGraph(cells, refs, a) ==
  [cells |-> Allocate(cells, a, Deref(cells, refs)), refs |-> RefsAt(a)]

\* the assignments an operation makes to its clone: the parts of the clone
\* end up holding the graph the operation returns
WriteParts(cells, refs, g) ==
  [nodes |-> [cells.nodes EXCEPT ![refs.nodes] = g.nodes],
   intervals |-> [cells.intervals EXCEPT ![refs.intervals] = g.intervals],
   phases |-> [cells.phases EXCEPT ![refs.phases] = g.phases]]

\* the addresses a GraphState object refers to
AddressesOf(refs) == {refs.nodes, refs.intervals, refs.phases}

\* the addresses the store can still reach
Reachable(h) ==
  AddressesOf(h.current) \cup AddressesOf(h.input)
    \cup UNION {AddressesOf(h.past[k]) : k \in 1..Len(h.past)}
    \cup UNION {AddressesOf(h.future[k]) : k \in 1..Len(h.future)}

\* the heap with the objects nothing refers to any more dropped
Collected(h) ==
  LET keep == Reachable(h)
  IN [h EXCEPT !.cells = [nodes |-> [a \in keep |-> h.cells.nodes[a]],
                          intervals |-> [a \in keep |-> h.cells.intervals[a]],
                          phases |-> [a \in keep |-> h.cells.phases[a]]]]

(* ----------------------------- project files --------------------------- *)
\* a property of a parsed JSON value: its typeof ("undefined" when absent,
\* "null" for null), whether, as a graph, it has its nodes, and what it holds
JsonField(type, hasNodes, content) == [type |-> type, hasNodes |-> hasNodes, content |-> content]

\* a start node with a count, and a start node with more phases than nodes
CountedProject == [createInitialGraph(1) EXCEPT !.nodes[1].n = Some(1)]
OverPhasedProject ==
  [createInitialGraph(1) EXCEPT
     !.phases = <<[id |-> 2, startNodeId |-> 1, endNodeId |-> 1],
                  [id |-> 3, startNodeId |-> 1, endNodeId |-> 1]>>]

\* the graph property of a file: absent, null, a string, an object with no
\* nodes, or a graph
GraphFields ==
  {JsonField(type, FALSE, createInitialGraph(1)) : type \in {"undefined", "null", "string", "object"}}
    \cup {JsonField("object", TRUE, g) : g \in {createInitialGraph(1), CountedProject, OverPhasedProject}}

\* the settings property of a file: absent, null, a string, or settings
SettingsFields ==
  {JsonField(type, FALSE, [autoCalc |-> TRUE, arrowsGlobal |-> TRUE]) : type \in {"undefined", "null", "string"}}
    \cup {JsonField("object", FALSE, [autoCalc |-> a, arrowsGlobal |-> TRUE]) : a \in BOOLEAN}

\* version: 0 stands for an absent version
Versions == {0, 1, 2}

\* a file that parses to an object with version 1 and the given properties
ProjectFile(graphField, settingsField) ==
  [parses |-> TRUE, type |-> "object", version |-> 1,
   graph |-> graphField, settings |-> settingsField]

\* files of the right shape: objects with version 1, a graph object (with or
\* without nodes) and a settings object
ShapedFiles ==
  {ProjectFile(g, st) : g \in {f \in GraphFields : f.type = "object"},
                        st \in {f \in SettingsFields : f.type = "object"}}

\* the text of a file: whether JSON.parse accepts it, the typeof of the
\* parsed value, and its version, graph and settings properties. The files
\* read are the shaped ones and the ones that differ from a shaped one in one
\* respect: not JSON, not an object, another version, a graph or settings
\* property that is no object
Files ==
  LET good == ProjectFile(JsonField("object", TRUE, CountedProject),
                          JsonField("object", FALSE, [autoCalc |-> FALSE, arrowsGlobal |-> TRUE]))
  IN ShapedFiles
       \cup {[good EXCEPT !.parses = FALSE]}
       \cup {[good EXCEPT !.type = t] : t \in {"null", "number"}}
       \cup {[good EXCEPT !.version = v] : v \in Versions}
       \cup {[good EXCEPT !.graph = f] : f \in GraphFields}
       \cup {[good EXCEPT !.settings = f] : f \in SettingsFields}

\* last.file when the last call read no file
NoFile ==
  [parses |-> FALSE, type |-> "null", version |-> 0,
   graph |-> JsonField("undefined", FALSE, createInitialGraph(1)),
   settings |-> JsonField("undefined", FALSE, [autoCalc |-> TRUE, arrowsGlobal |-> TRUE])]

\* isPersistedProject with the version left unchecked
isPersistedProjectAnyVersion(value) ==
  /\ value.type = "object"
  /\ value.graph.type = "object"
  /\ value.settings.type = "object"

\* isPersistedProject(value)
isPersistedProject(value) ==
  /\ value.type = "object"
  /\ value.version = 1
  /\ value.graph.type = "object"
  /\ value.settings.type = "object"

(* ------------------------------- numbers ------------------------------- *)
\* a JavaScript number | null as formatInteger sees it
NullNumber == [kind |-> "null", v |-> 0]
NaNNumber == [kind |-> "NaN", v |-> 0]
IntNumber(v) == [kind |-> "int", v |-> v]

\* separators[DEFAULT_LOCALE]
Separator == " "
\* the placeholder returned for null and NaN: the one character U+2014
Placeholder == "em-dash"

DigitChars == <<"0", "1", "2", "3", "4", "5", "6", "7", "8", "9">>

RECURSIVE DecimalDigits(_)
\* the decimal digits of a natural number, most significant first
DecimalDigits(m) ==
  IF m < 10 THEN <<DigitChars[m + 1]>>
  ELSE DecimalDigits(m \div 10) \o <<DigitChars[(m % 10) + 1]>>

\* Math.trunc(n).toString().split('') of an integer
toStringSplit(v) == IF v < 0 THEN <<"-">> \o DecimalDigits(-v) ELSE DecimalDigits(v)

RECURSIVE formatLoop(_, _, _, _)
\* the loop of formatInteger from position i (1-based) down to the first part
formatLoop(parts, i, counter, out) ==
  IF i < 1 THEN out
  ELSE LET pushed == <<parts[i]>> \o out
       IN IF counter + 1 = 3 /\ i # 1
          THEN formatLoop(parts, i - 1, 0, <<Separator>> \o pushed)
          ELSE formatLoop(parts, i - 1, counter + 1, pushed)

\* formatInteger(n): the characters of the returned string
formatInteger(n) ==
  IF n.kind # "int" THEN <<Placeholder>>
  ELSE LET parts == toStringSplit(n.v)
       IN formatLoop(parts, Len(parts), 0, <<>>)

\* formatCount(n, format): the template's text around the characters of value
formatCount(n, format) ==
  IF format = "parenthetical" THEN <<"(n = ">> \o formatInteger(n) \o <<")">>
  ELSE <<"N = ">> \o formatInteger(n)

CountFormats == {"upper", "parenthetical"}

\* last.fmt when the last call formatted nothing
NoFormat == [n |-> NullNumber, countFormat |-> "upper", integer |-> <<>>, count |-> <<>>]

(* ------------------------------- actions ------------------------------- *)
\* what the user may type into a count field
CountInputs == {Null} \cup {Some(v) : v \in 0..MaxCount}

SettingsSet == [autoCalc : BOOLEAN, freeEdit : BOOLEAN]
\* auto mode: autoCalc on, free edit off
AutoSettings == [autoCalc |-> TRUE, freeEdit |-> FALSE]
NoSettings == [autoCalc |-> FALSE, freeEdit |-> FALSE]
\* the store's defaultSettings
defaultSettings == [autoCalc |-> TRUE, arrowsGlobal |-> TRUE]

\* the nodes whose count was null in g and is not in h; the intervals likewise
FilledCounts(g, h) ==
  {id \in NodeIds(g) \cap NodeIds(h) : g.nodes[id].n = Null /\ h.nodes[id].n # Null}
FilledTotals(g, h) ==
  {i \in IntervalIds(g) \cap IntervalIds(h) :
     TotalOf(g.intervals[i]) = Null /\ TotalOf(h.intervals[i]) # Null}

\* the nodes whose count the user has typed since the last recomputeGraph
TypedSince == IF last.op = "recomputeGraph" THEN {} ELSE last.typed

\* the record of the last call: the operation, its target id and value,
\* whether it threw (a call that throws produces no new state), the nodes
\* typed into since the recomputeGraph before it (kept by the specifications
\* that track it), the number of redo snapshots a store action discarded and,
\* for recomputeGraph, the settings and the counts and totals it filled in;
\* split holds the branch groups (childIds) that have received the even split,
\* in the specifications that track it, custom the intervals whose auto
\* reason the user has labelled, discarded the intervals whose filled-in
\* exclusion a recomputeGraph has cleared
Call(op, target, value, skip, threw) ==
  [op |-> op, target |-> target, value |-> value, skip |-> skip, threw |-> threw,
   typed |-> TypedSince, split |-> last.split, custom |-> last.custom, discarded |-> last.discarded, cleared |-> 0, fmt |-> NoFormat, direction |-> "", file |-> NoFile,
   settings |-> NoSettings, filledCounts |-> {}, filledTotals |-> {}]

Init ==
  /\ graph = createInitialGraph(1)
  /\ nextId = 2
  /\ last = [op |-> "createInitialGraph", target |-> 1, value |-> Null, skip |-> FALSE,
             threw |-> FALSE, typed |-> {}, split |-> {}, custom |-> {}, discarded |-> {}, cleared |-> 0, fmt |-> NoFormat, direction |-> "", file |-> NoFile,
             settings |-> NoSettings,
             filledCounts |-> {}, filledTotals |-> {}]
  /\ storeSettings = defaultSettings
  /\ history = [past |-> <<>>, future |-> <<>>]
  /\ heap = HeapOf(graph)

\* addNodeBelow under one of `parents`, while the graph has fewer than maxNodes
AddNodeBelow(parents, maxNodes, maxIds) ==
  \E parentId \in parents \cap NodeIds(graph) :
    /\ Cardinality(NodeIds(graph)) < maxNodes
    /\ nextId + 1 <= maxIds
    /\ graph' = addNodeBelow(graph, parentId, nextId)
    /\ nextId' = nextId + 2
    /\ last' = Call("addNodeBelow", parentId, Null, FALSE, FALSE)
    /\ UNCHANGED storeVars

\* the branch groups whose children are all unset in g and all set in h: only
\* initializeBranchChildren sets every child of a parent
SplitGroups(g, h) ==
  {g.nodes[p].childIds : p \in
     {p \in NodeIds(g) \cap NodeIds(h) :
        /\ Len(g.nodes[p].childIds) > 1
        /\ h.nodes[p].childIds = g.nodes[p].childIds
        /\ \A k \in 1..Len(g.nodes[p].childIds) :
             /\ CountOf(g, g.nodes[p].childIds[k]) = Null
             /\ CountOf(h, g.nodes[p].childIds[k]) # Null}}

\* the text typed into a node, which has one line at first: MaxTextLines
\* wrapped lines, which make the box taller than NODE_MIN_HEIGHT
TextInputs == {MaxTextLines}

UpdateNodeText ==
  \E nodeId \in NodeIds(graph), textLines \in TextInputs :
    /\ graph' = updateNodeText(graph, nodeId, textLines)
    /\ nextId' = nextId
    /\ last' = Call("updateNodeText", nodeId, Null, FALSE, FALSE)
    /\ UNCHANGED storeVars

\* updateNodeCount; `track` says whether the typed history is kept
UpdateNodeCount(overrides, skips, track) ==
  \E nodeId \in NodeIds(graph), n \in CountInputs, override \in overrides, skip \in skips :
    /\ graph' = updateNodeCount(graph, nodeId, n, override, skip)
    /\ nextId' = nextId
    /\ last' = [Call("updateNodeCount", nodeId, n, skip, FALSE) EXCEPT
                  !.typed = IF track THEN @ \cup {nodeId} ELSE @]
    /\ UNCHANGED storeVars

UpdateExclusionCount ==
  \E intervalId \in IntervalIds(graph), n \in CountInputs :
    /\ graph' = updateExclusionCount(graph, intervalId, n)
    /\ nextId' = nextId
    /\ last' = Call("updateExclusionCount", intervalId, n, FALSE, FALSE)
    /\ UNCHANGED storeVars

AddExclusionReason(maxIds) ==
  \E intervalId \in IntervalIds(graph) :
    LET exclusion == ExclusionOrDefault(graph.intervals[intervalId])
        used == 1 + (IF AllocatesAuto(WithNewReason(exclusion, nextId)) THEN 1 ELSE 0)
    IN /\ Len(UserReasonsOf(exclusion)) < MaxReasons
       /\ nextId + used - 1 <= maxIds
       /\ graph' = addExclusionReason(graph, intervalId, nextId)
       /\ nextId' = nextId + used
       /\ last' = Call("addExclusionReason", intervalId, Null, FALSE, FALSE)
       /\ UNCHANGED storeVars

UpdateExclusionReasonCount(overrides, maxIds) ==
  \E intervalId \in IntervalIds(graph), value \in CountInputs, override \in overrides :
    /\ graph.intervals[intervalId].exclusion # Null
    /\ \E reasonId \in ReasonIds(graph.intervals[intervalId].exclusion[1]) :
         LET exclusion == graph.intervals[intervalId].exclusion[1]
             k == ReasonIndex(exclusion, reasonId)
             used == IF exclusion.reasons[k].kind = "user"
                        /\ AllocatesAuto([exclusion EXCEPT !.reasons[k].n = value])
                     THEN 1 ELSE 0
         IN /\ nextId + used - 1 <= maxIds
            /\ graph' = updateExclusionReasonCount(graph, intervalId, reasonId, value,
                                                   override, nextId)
            /\ nextId' = nextId + used
            /\ last' = Call("updateExclusionReasonCount", reasonId, value, FALSE, FALSE)
            /\ UNCHANGED storeVars

\* the labels typed into a reason row
Labels == {"", "Lost to follow-up"}

\* updateExclusionReasonLabel; last.custom keeps the intervals whose auto
\* reason was shown with a label the user gave it
UpdateExclusionReasonLabel(maxIds) ==
  \E intervalId \in IntervalIds(graph), label \in Labels :
    /\ graph.intervals[intervalId].exclusion # Null
    /\ \E reasonId \in ReasonIds(graph.intervals[intervalId].exclusion[1]) :
         LET exclusion == graph.intervals[intervalId].exclusion[1]
             k == ReasonIndex(exclusion, reasonId)
             used == IF AllocatesAuto(exclusion) THEN 1 ELSE 0
         IN /\ nextId + used - 1 <= maxIds
            /\ graph' = updateExclusionReasonLabel(graph, intervalId, reasonId, label, nextId)
            /\ nextId' = nextId + used
            /\ last' = [Call("updateExclusionReasonLabel", reasonId, Null, FALSE, FALSE) EXCEPT
                          !.custom = IF exclusion.reasons[k].kind # "auto" THEN @
                                     ELSE IF label = "" THEN @ \ {intervalId}
                                     ELSE IF AutoReasonsOf(graph'.intervals[intervalId].exclusion[1]) = <<>>
                                     THEN @
                                     ELSE @ \cup {intervalId}]
            /\ UNCHANGED storeVars

RemoveExclusionReason(maxIds) ==
  \E intervalId \in IntervalIds(graph) :
    /\ graph.intervals[intervalId].exclusion # Null
    /\ \E reasonId \in ReasonIds(graph.intervals[intervalId].exclusion[1]) :
         LET exclusion == graph.intervals[intervalId].exclusion[1]
             used == IF AllocatesAuto(WithoutReason(exclusion, reasonId)) THEN 1 ELSE 0
         IN /\ nextId + used - 1 <= maxIds
            /\ graph' = removeExclusionReason(graph, intervalId, reasonId, nextId)
            /\ nextId' = nextId + used
            /\ last' = Call("removeExclusionReason", reasonId, Null, FALSE, FALSE)
            /\ UNCHANGED storeVars

\* removeNode of a node of the graph or of an id the graph never held
RemoveNode ==
  \E nodeId \in NodeIds(graph) \cup {nextId} :
    /\ graph' = removeNode(graph, nodeId)
    /\ nextId' = nextId
    /\ last' = Call("removeNode", nodeId, Null, FALSE, FALSE)
    /\ UNCHANGED storeVars

AddPhase(maxIds) ==
  LET r == addPhase(graph, nextId)
  IN /\ Len(graph.phases) < MaxPhases
     /\ nextId <= maxIds
     /\ graph' = r.graph
     /\ nextId' = nextId + 1
     /\ last' = Call("addPhase", nextId, Null, FALSE, r.threw)
     /\ UNCHANGED storeVars

UpdatePhaseBounds ==
  \E phaseId \in PhaseIds(graph), startNodeId \in NodeIds(graph), endNodeId \in NodeIds(graph) :
    /\ graph' = updatePhaseBounds(graph, phaseId, startNodeId, endNodeId)
    /\ nextId' = nextId
    /\ last' = Call("updatePhaseBounds", phaseId, Null, FALSE, FALSE)
    /\ UNCHANGED storeVars

RemovePhase ==
  \E phaseId \in PhaseIds(graph) :
    /\ graph' = removePhase(graph, phaseId)
    /\ nextId' = nextId
    /\ last' = Call("removePhase", phaseId, Null, FALSE, FALSE)
    /\ UNCHANGED storeVars

\* the operations that look their node or interval id up and throw a
\* not-found Error when it is missing
NotFoundOps ==
  {"addNodeBelow", "updateNodeCount", "updateExclusionCount", "addExclusionReason",
   "updateExclusionReasonCount", "removeExclusionReason"}

\* one of them called with an id the graph never held: the call throws
NotFound ==
  \E op \in NotFoundOps :
    /\ graph' = graph
    /\ nextId' = nextId
    /\ last' = Call(op, nextId, Null, FALSE, TRUE)
    /\ UNCHANGED storeVars

\* removeExclusionReason on an interval that has an exclusion, with a reason
\* id no reason has: the filter keeps every reason and ensureOtherReason runs
RemoveUnknownReason(maxIds) ==
  \E intervalId \in IntervalIds(graph) :
    /\ graph.intervals[intervalId].exclusion # Null
    /\ LET exclusion == graph.intervals[intervalId].exclusion[1]
           reasonId == nextId + 1
           used == IF AllocatesAuto(WithoutReason(exclusion, reasonId)) THEN 1 ELSE 0
       IN /\ nextId + used - 1 <= maxIds
          /\ graph' = removeExclusionReason(graph, intervalId, reasonId, nextId)
          /\ nextId' = nextId + used
          /\ last' = Call("removeExclusionReason", reasonId, Null, FALSE, FALSE)
          /\ UNCHANGED storeVars

\* every count and exclusion total of g is null or within the inferred range
WithinRange(g) ==
  /\ \A id \in NodeIds(g) : OrZero(g.nodes[id].n) \in -MaxInferred..MaxInferred
  /\ \A i \in IntervalIds(g) : OrZero(TotalOf(g.intervals[i])) \in -MaxInferred..MaxInferred

\* recomputeGraph(graph, settings); when it throws the caller keeps the graph
Recompute(settingsChoices, maxIds) ==
  \E settings \in settingsChoices :
    \E r \in {recomputeGraph(graph, settings, nextId)} :
       /\ r.nextId - 1 <= maxIds
       /\ WithinRange(r.graph)
       /\ graph' = IF r.threw THEN graph ELSE r.graph
       /\ nextId' = r.nextId
       /\ last' = [Call("recomputeGraph", NoId, Null, FALSE, r.threw) EXCEPT
                     !.settings = settings,
                     !.filledCounts = FilledCounts(graph, graph'),
                     !.filledTotals = FilledTotals(graph, graph')]
       /\ UNCHANGED storeVars

\* the exclusion holds something the user or the inference put there
FilledIn(interval) ==
  /\ interval.exclusion # Null
  /\ interval.exclusion[1] # createDefaultExclusion

\* recomputeGraph, with the intervals recorded whose filled-in exclusion it
\* cleared; an interval that is given an exclusion again is taken off
RecomputeBranch(settingsChoices, maxIds) ==
  \E settings \in settingsChoices :
    \E r \in {recomputeGraph(graph, settings, nextId)} :
    LET lost == {i \in IntervalIds(graph) :
                   FilledIn(graph.intervals[i]) /\ r.graph.intervals[i].exclusion = Null}
        kept == {i \in last.discarded \cap IntervalIds(graph) :
                   graph.intervals[i].exclusion = Null}
    IN /\ r.nextId - 1 <= maxIds
       /\ WithinRange(r.graph)
       /\ graph' = IF r.threw THEN graph ELSE r.graph
       /\ nextId' = r.nextId
       /\ last' = [Call("recomputeGraph", NoId, Null, FALSE, r.threw) EXCEPT
                     !.settings = settings,
                     !.discarded = IF r.threw THEN @ ELSE kept \cup lost,
                     !.filledCounts = FilledCounts(graph, graph'),
                     !.filledTotals = FilledTotals(graph, graph')]
       /\ UNCHANGED storeVars

\* recomputeGraph outside free edit, with the branch groups it split recorded
RecomputeSplit(autoCalcs, maxIds) ==
  \E autoCalc \in autoCalcs :
    \E settings \in {[autoCalc |-> autoCalc, freeEdit |-> FALSE]} :
    \E r \in {recomputeGraph(graph, settings, nextId)} :
       /\ r.nextId - 1 <= maxIds
       /\ WithinRange(r.graph)
       /\ graph' = IF r.threw THEN graph ELSE r.graph
       /\ nextId' = r.nextId
       /\ last' = [Call("recomputeGraph", NoId, Null, FALSE, r.threw) EXCEPT
                     !.settings = settings,
                     !.split = @ \cup SplitGroups(graph, graph'),
                     !.filledCounts = FilledCounts(graph, graph'),
                     !.filledTotals = FilledTotals(graph, graph')]
       /\ UNCHANGED storeVars

\* recomputeGraph(recomputeGraph(graph, settings), settings) on any graph the
\* mutations have produced; the caller keeps the second result
RecomputeAgain(settingsChoices, maxIds) ==
  \E settings \in settingsChoices :
    \E once \in {recomputeGraph(graph, settings, nextId)} :
      \E twice \in {recomputeGraph(once.graph, settings, once.nextId)} :
         /\ twice.nextId - 1 <= maxIds
         /\ WithinRange(twice.graph)
         /\ graph' = IF once.threw \/ twice.threw THEN graph ELSE twice.graph
         /\ nextId' = twice.nextId
         /\ last' = [Call("recomputeAgain", NoId, Null, FALSE, once.threw \/ twice.threw) EXCEPT
                       !.settings = settings,
                       !.filledCounts = FilledCounts(graph, graph'),
                       !.filledTotals = FilledTotals(graph, graph')]
         /\ UNCHANGED storeVars

\* free edit toggled on and back off, the other settings kept and nothing
\* edited in between, on a graph that recomputeGraph has just produced with
\* freeEdit = false: recomputeGraph with freeEdit on, then with it off
FreeEditRoundTrip(maxIds) ==
  \E on \in {recomputeGraph(graph, [last.settings EXCEPT !.freeEdit = TRUE], nextId)} :
    \E off \in {recomputeGraph(on.graph, [last.settings EXCEPT !.freeEdit = FALSE], on.nextId)} :
       /\ last.op = "recomputeGraph" /\ ~last.threw /\ ~last.settings.freeEdit
       /\ off.nextId - 1 <= maxIds
       /\ WithinRange(off.graph)
       /\ graph' = IF on.threw \/ off.threw THEN graph ELSE off.graph
       /\ nextId' = off.nextId
       /\ last' = [Call("freeEditRoundTrip", NoId, Null, FALSE, on.threw \/ off.threw) EXCEPT
                     !.settings = last.settings,
                     !.filledCounts = FilledCounts(graph, graph'),
                     !.filledTotals = FilledTotals(graph, graph')]
       /\ UNCHANGED storeVars

\* recomputeGraph called twice in a row, with the same settings or with
\* autoCalc off the second time, on a graph that recomputeGraph has just
\* produced; last.settings keeps the settings of the first of the two calls
RecomputeTwice(maxIds) ==
  \E second \in {last.settings, [last.settings EXCEPT !.autoCalc = FALSE]},
     once \in {recomputeGraph(graph, last.settings, nextId)} :
    \E twice \in {recomputeGraph(once.graph, second, once.nextId)} :
       /\ last.op = "recomputeGraph" /\ ~last.threw
       /\ twice.nextId - 1 <= maxIds
       /\ WithinRange(twice.graph)
       /\ graph' = IF once.threw \/ twice.threw THEN graph ELSE twice.graph
       /\ nextId' = twice.nextId
       /\ last' = [Call("recomputeTwice", NoId, Null, FALSE, once.threw \/ twice.threw) EXCEPT
                     !.settings = last.settings,
                     !.filledCounts = FilledCounts(graph, graph'),
                     !.filledTotals = FilledTotals(graph, graph')]
       /\ UNCHANGED storeVars

\* a start node over a node with two children, the second of them with a
\* child of its own whose interval has one user reason
DriftShape ==
  LET g1 == addNodeBelow(createInitialGraph(1), 1, 2)
      g2 == addNodeBelow(g1, 2, 4)
      g3 == addNodeBelow(g2, 2, 6)
      g4 == addNodeBelow(g3, 6, 8)
  IN addExclusionReason(g4, 9, 10)

DriftNodes == <<1, 2, 4, 6, 8>>

RECURSIVE TypeCounts(_, _, _)
\* updateNodeCount on the nodes ids, in order, with the counts typed
TypeCounts(g, ids, typed) ==
  IF ids = <<>> THEN g
  ELSE TypeCounts(updateNodeCount(g, Head(ids), Head(typed), "undefined", FALSE),
                  Tail(ids), Tail(typed))

\* the project after the nodes were added, their counts typed and the total
\* of the first exclusion typed
InitDrift ==
  /\ \E typed \in [1..Len(DriftNodes) -> CountInputs], total \in CountInputs :
       graph = updateExclusionCount(TypeCounts(DriftShape, DriftNodes, typed), 3, total)
  /\ nextId = 11
  /\ last = [op |-> "updateExclusionCount", target |-> 3, value |-> Null, skip |-> FALSE,
             threw |-> FALSE, typed |-> {}, split |-> {}, custom |-> {}, discarded |-> {}, cleared |-> 0, fmt |-> NoFormat, direction |-> "", file |-> NoFile,
             settings |-> NoSettings,
             filledCounts |-> {}, filledTotals |-> {}]
  /\ storeSettings = defaultSettings
  /\ history = [past |-> <<>>, future |-> <<>>]
  /\ heap = HeapOf(graph)

\* setSelected(graph, id) with a node, an interval, a phase, undefined or an
\* id the graph does not hold
\* removeNode and removePhase with the id that was selected before the call
\* kept in last.value
RemoveNodeTracking ==
  \E nodeId \in NodeIds(graph) \cup {nextId} :
    /\ graph' = removeNode(graph, nodeId)
    /\ nextId' = nextId
    /\ last' = Call("removeNode", nodeId, Some(graph.selectedId), FALSE, FALSE)
    /\ UNCHANGED storeVars

RemovePhaseTracking ==
  \E phaseId \in PhaseIds(graph) :
    /\ graph' = removePhase(graph, phaseId)
    /\ nextId' = nextId
    /\ last' = Call("removePhase", phaseId, Some(graph.selectedId), FALSE, FALSE)
    /\ UNCHANGED storeVars

SetSelected ==
  \E id \in NodeIds(graph) \cup IntervalIds(graph) \cup PhaseIds(graph) \cup {NoId, nextId} :
    /\ graph' = setSelected(graph, id)
    /\ nextId' = nextId
    /\ last' = Call("setSelected", id, Null, FALSE, FALSE)
    /\ UNCHANGED storeVars

\* navigateSelection(graph, direction): last.target is the id returned
NavigateSelection ==
  \E direction \in Directions :
    /\ last' = [Call("navigateSelection", navigateSelection(graph, direction), Null, FALSE, FALSE)
                  EXCEPT !.direction = direction]
    /\ UNCHANGED <<graph, nextId>>
    /\ UNCHANGED storeVars

RECURSIVE ValueOf(_)
\* the natural number with the decimal digits ds, most significant first
ValueOf(ds) == IF ds = <<>> THEN 0 ELSE 10 * ValueOf(SubSeq(ds, 1, Len(ds) - 1)) + ds[Len(ds)]

\* the numbers formatted: null, NaN and the integers of either sign with up
\* to MaxDigits digits taken from SampleDigits
SampleDigits == {0, 1, 7}
FormatInputs ==
  {NullNumber, NaNNumber}
    \cup {IntNumber(sign * ValueOf(ds)) : sign \in {-1, 1}, ds \in [1..MaxDigits -> SampleDigits]}

\* a number and a count format about to be formatted, in a fresh project
InitNumbers ==
  /\ graph = createInitialGraph(1)
  /\ nextId = 2
  /\ \E n \in FormatInputs, format \in CountFormats :
       last = [op |-> "createInitialGraph", target |-> 1, value |-> Null, skip |-> FALSE,
               threw |-> FALSE, typed |-> {}, split |-> {}, custom |-> {}, discarded |-> {}, cleared |-> 0, direction |-> "",
               file |-> NoFile,
               fmt |-> [NoFormat EXCEPT !.n = n, !.countFormat = format],
               settings |-> NoSettings, filledCounts |-> {}, filledTotals |-> {}]
  /\ storeSettings = defaultSettings
  /\ history = [past |-> <<>>, future |-> <<>>]
  /\ heap = HeapOf(graph)

\* formatCount(n, format), which calls formatInteger(n), on the number and
\* format at hand
FormatCount ==
  /\ last.op # "formatCount"
  /\ last' = [Call("formatCount", NoId, Null, FALSE, FALSE) EXCEPT
                !.fmt = [n |-> last.fmt.n, countFormat |-> last.fmt.countFormat,
                         integer |-> formatInteger(last.fmt.n),
                         count |-> formatCount(last.fmt.n, last.fmt.countFormat)]]
  /\ UNCHANGED <<graph, nextId>>
  /\ UNCHANGED storeVars

(* -------------------------------- store -------------------------------- *)
\* the settings recomputeGraph reads from this store's AppSettings, which
\* has autoCalc and arrowsGlobal only: settings.freeEdit reads undefined
recomputeSettings(s) == [autoCalc |-> s.autoCalc, freeEdit |-> FALSE]

\* a snapshot that keeps the graph and takes the default settings
cloneSnapshotDefaultSettings(g, s) == [graph |-> g, settings |-> defaultSettings]

cloneSnapshot(g, s) == [graph |-> g, settings |-> s]

\* the snapshot appended and future cleared, with no past.splice
pushHistoryNoEviction(h, snapshot) ==
  [past |-> Append(h.past, snapshot), future |-> <<>>]

\* the snapshot appended and the oldest evicted, future left as it was
pushHistoryKeepFuture(h, snapshot) ==
  LET past == Append(h.past, snapshot)
  IN [past |-> IF Len(past) > HISTORY_LIMIT
               THEN SubSeq(past, Len(past) - HISTORY_LIMIT + 1, Len(past))
               ELSE past,
      future |-> h.future]

pushHistory(h, snapshot) ==
  LET past == Append(h.past, snapshot)
  IN [past |-> IF Len(past) > HISTORY_LIMIT
               THEN SubSeq(past, Len(past) - HISTORY_LIMIT + 1, Len(past))
               ELSE past,
      future |-> <<>>]

\* a history-recording action on the objects: prev = cloneSnapshot(get().graph),
\* then the operation clones state.graph, writes to its clone and returns it,
\* and pushHistory appends prev
recordObjects(h, result) ==
  LET used == DOMAIN h.cells.nodes
      prev == cloneGraph(h.cells, h.current, Fresh(used))
      cloned == cloneGraph(prev.cells, h.current, Fresh(used \cup {Fresh(used)}))
      pushed == pushHistory([past |-> h.past, future |-> h.future], prev.refs)
  IN Collected([cells |-> WriteParts(cloned.cells, cloned.refs, result),
                current |-> cloned.refs, input |-> h.current,
                past |-> pushed.past, future |-> pushed.future])

\* actions.undo() on the objects: state.graph becomes the last object of past,
\* a clone of the graph shown goes in front of future
undoObjects(h) ==
  IF h.past = <<>> THEN Collected([h EXCEPT !.input = h.current])
  ELSE LET now == cloneGraph(h.cells, h.current, Fresh(DOMAIN h.cells.nodes))
       IN Collected([cells |-> now.cells,
                     current |-> h.past[Len(h.past)], input |-> h.current,
                     past |-> SubSeq(h.past, 1, Len(h.past) - 1),
                     future |-> <<now.refs>> \o h.future])

\* actions.redo() on the objects
redoObjects(h) ==
  IF h.future = <<>> THEN Collected([h EXCEPT !.input = h.current])
  ELSE LET now == cloneGraph(h.cells, h.current, Fresh(DOMAIN h.cells.nodes))
       IN Collected([cells |-> now.cells,
                     current |-> h.future[1], input |-> h.current,
                     past |-> Append(h.past, now.refs),
                     future |-> Tail(h.future)])


\* get(): the state of the store
StoreState == [graph |-> graph, settings |-> storeSettings, history |-> history]

\* the state written whether or not the updater threw
setStateAnyway(state, r, nextSettings, prev) ==
  [graph |-> r.graph, settings |-> nextSettings,
   history |-> pushHistory(state.history, prev)]

\* set((state) => ...) of a history-recording action: r is what the updater
\* computed for the graph; when it threw, set() never assigns and the state
\* stays what it was
setState(state, r, nextSettings, prev) ==
  IF r.threw THEN state
  ELSE [graph |-> r.graph, settings |-> nextSettings,
        history |-> pushHistory(state.history, prev)]

\* a history-recording action as a step: past holds fewer than maxPast
\* snapshots, ids stay within maxIds
Record(op, target, value, result, nextSettings, maxPast, maxIds) ==
  \E r \in {result} :
  \E new \in {setState(StoreState, r, nextSettings, cloneSnapshot(graph, storeSettings))} :
     /\ r.threw \/ Len(history.past) < maxPast
     /\ r.nextId - 1 <= maxIds
     /\ WithinRange(r.graph)
     /\ graph' = new.graph
     /\ storeSettings' = new.settings
     /\ history' = new.history
     /\ nextId' = r.nextId
     /\ last' = [Call(op, target, value, FALSE, r.threw) EXCEPT
                   !.settings = recomputeSettings(nextSettings),
                   !.cleared = Len(history.future) - Len(new.history.future)]

\* a call that threw before any graph was computed
Thrown == [threw |-> TRUE, graph |-> graph, nextId |-> nextId]

\* actions.addNodeBelow(parentId)
StoreAddNodeBelow(maxNodes, maxPast, maxIds) ==
  \E parentId \in NodeIds(graph) :
    /\ Cardinality(NodeIds(graph)) < maxNodes
    /\ Record("actions.addNodeBelow", parentId, Null,
              recomputeGraph(addNodeBelow(graph, parentId, nextId),
                             recomputeSettings(storeSettings), nextId + 2),
              storeSettings, maxPast, maxIds)

\* actions.updateNodeCount(nodeId, value), of a node of the graph or of an id
\* the graph never held
StoreUpdateNodeCount(maxPast, maxIds) ==
  \E nodeId \in NodeIds(graph) \cup {nextId}, value \in CountInputs :
    Record("actions.updateNodeCount", nodeId, value,
           IF nodeId \in NodeIds(graph)
           THEN recomputeGraph(updateNodeCount(graph, nodeId, value, "undefined", FALSE),
                               recomputeSettings(storeSettings), nextId)
           ELSE Thrown,
           storeSettings, maxPast, maxIds)

\* actions.toggleAutoCalc()
StoreToggleAutoCalc(maxPast, maxIds) ==
  LET nextSettings == [storeSettings EXCEPT !.autoCalc = ~storeSettings.autoCalc]
  IN Record("actions.toggleAutoCalc", NoId, Null,
            recomputeGraph(graph, recomputeSettings(nextSettings), nextId),
            nextSettings, maxPast, maxIds)

\* the projects importSnapshot is given: a fresh project with the defaults
ImportedProjects == {cloneSnapshot(createInitialGraph(1), defaultSettings)}

\* actions.importSnapshot(snapshot)
StoreImportSnapshot(maxPast, maxIds) ==
  \E snapshot \in ImportedProjects :
    Record("actions.importSnapshot", NoId, Null,
           recomputeGraph(snapshot.graph, recomputeSettings(snapshot.settings), nextId),
           snapshot.settings, maxPast, maxIds)

\* onImportJson(file): the text parsed, checked by isPersistedProject and
\* given to actions.importSnapshot; every failure ends in the catch block.
\* cloneGraph throws on a graph without nodes.
OnImportJson(maxPast, maxIds) ==
  \E file \in Files :
    LET accepted == file.parses /\ isPersistedProject(file)
        r == IF ~accepted \/ ~file.graph.hasNodes THEN Thrown
             ELSE recomputeGraph(file.graph.content,
                                 recomputeSettings(file.settings.content), nextId)
        new == setState(StoreState, r, file.settings.content,
                        cloneSnapshot(graph, storeSettings))
    IN /\ r.threw \/ Len(history.past) < maxPast
       /\ r.nextId - 1 <= maxIds
       /\ graph' = new.graph
       /\ storeSettings' = new.settings
       /\ history' = new.history
       /\ nextId' = r.nextId
       /\ last' = [Call("onImportJson", NoId, Null, FALSE, r.threw) EXCEPT
                     !.file = file,
                     !.cleared = Len(history.future) - Len(new.history.future)]

\* actions.undo()
StoreUndo ==
  /\ IF history.past = <<>>
     THEN UNCHANGED <<graph, storeSettings, history>>
     ELSE LET prev == history.past[Len(history.past)]
          IN /\ graph' = prev.graph
             /\ storeSettings' = prev.settings
             /\ history' = [past |-> SubSeq(history.past, 1, Len(history.past) - 1),
                            future |-> <<cloneSnapshot(graph, storeSettings)>> \o history.future]
  /\ nextId' = nextId
  /\ last' = Call("actions.undo", NoId, Null, FALSE, FALSE)

\* selectById with the state before it pushed on the undo stack
selectByIdRecording(state, id) ==
  [state EXCEPT !.graph = setSelected(state.graph, id),
                !.history = pushHistory(state.history,
                                        cloneSnapshot(state.graph, state.settings))]

\* actions.selectById(id): set((state) => ({...state, graph: setSelected(state.graph, id)}))
selectById(state, id) == [state EXCEPT !.graph = setSelected(state.graph, id)]

\* actions.navigateSelection(direction): the store is written only when the
\* navigation returns an id
actionsNavigateSelection(state, direction) ==
  LET next == navigateSelection(state.graph, direction)
  IN IF next # NoId THEN [state EXCEPT !.graph = setSelected(state.graph, next)]
     ELSE state

StoreSelectById ==
  \E id \in NodeIds(graph) \cup IntervalIds(graph) \cup PhaseIds(graph) \cup {NoId} :
    \E new \in {selectById(StoreState, id)} :
       /\ graph' = new.graph
       /\ storeSettings' = new.settings
       /\ history' = new.history
       /\ nextId' = nextId
       /\ last' = Call("actions.selectById", id, Null, FALSE, FALSE)

StoreNavigateSelection ==
  \E direction \in Directions :
    \E new \in {actionsNavigateSelection(StoreState, direction)} :
       /\ graph' = new.graph
       /\ storeSettings' = new.settings
       /\ history' = new.history
       /\ nextId' = nextId
       /\ last' = [Call("actions.navigateSelection", navigateSelection(graph, direction),
                        Null, FALSE, FALSE) EXCEPT !.direction = direction]

\* actions.redo()
StoreRedo ==
  /\ IF history.future = <<>>
     THEN UNCHANGED <<graph, storeSettings, history>>
     ELSE LET next == history.future[1]
          IN /\ graph' = next.graph
             /\ storeSettings' = next.settings
             /\ history' = [past |-> Append(history.past, cloneSnapshot(graph, storeSettings)),
                            future |-> Tail(history.future)]
  /\ nextId' = nextId
  /\ last' = Call("actions.redo", NoId, Null, FALSE, FALSE)

\* what a history-recording action does to the objects: nothing when the
\* updater threw (prev is dropped), the clones and the push otherwise
RecordObjects ==
  heap' = IF last'.threw THEN Collected([heap EXCEPT !.input = heap.current])
          ELSE recordObjects(heap, graph')

\* what actions.undo() does to the objects
UndoObjects == heap' = undoObjects(heap)

\* what actions.redo() does to the objects
RedoObjects == heap' = redoObjects(heap)

(* ---------------------------- specifications --------------------------- *)
\* every operation, on a graph of any shape
Next ==
  \/ AddNodeBelow(NodeIds(graph), MaxNodes, MaxIds)
  \/ UpdateNodeCount({"undefined", "text"}, BOOLEAN, FALSE)
  \/ UpdateExclusionCount
  \/ AddExclusionReason(MaxIds)
  \/ UpdateExclusionReasonCount({"undefined"}, MaxIds)
  \/ RemoveExclusionReason(MaxIds)
  \/ RemoveNode
  \/ AddPhase(MaxIds)
  \/ UpdatePhaseBounds
  \/ RemovePhase
  \/ Recompute(SettingsSet, MaxIds)

Spec == Init /\ [][Next]_vars

\* the start node branched into up to MaxChildren children, and their counts
NextBranch ==
  \/ AddNodeBelow({graph.startNodeId}, MaxChildren + 1, MaxIds)
  \/ UpdateNodeCount({"undefined"}, {FALSE}, FALSE)
  \/ Recompute(SettingsSet, MaxIds)

SpecBranch == Init /\ [][NextBranch]_vars

\* the start node branched into up to MaxChildren children, counts typed in
\* and cleared, recomputeGraph outside free edit; the even splits are recorded
NextSplit ==
  \/ AddNodeBelow({graph.startNodeId}, MaxChildren + 1, MaxIds)
  \/ UpdateNodeCount({"undefined"}, {FALSE}, FALSE)
  \/ RecomputeSplit(BOOLEAN, MaxIds)

SpecSplit == Init /\ [][NextSplit]_vars

\* the acceptance scenario: the start node branched into up to MaxChildren
\* children, counts typed in, recomputeGraph in auto mode; the typed history
\* is kept
NextAcceptance ==
  \/ AddNodeBelow({graph.startNodeId}, MaxChildren + 1, MaxIds)
  \/ UpdateNodeCount({"undefined"}, {FALSE}, TRUE)
  \/ Recompute({AutoSettings}, MaxIds)

SpecAcceptance == Init /\ [][NextAcceptance]_vars

\* the start node and its first children: count edits with and without the
\* rebalance, and free-edit overrides
NextRebalance ==
  \/ AddNodeBelow({graph.startNodeId}, MaxNodes, MaxIds)
  \/ UpdateNodeCount({"undefined", "text"}, BOOLEAN, FALSE)
  \/ Recompute(SettingsSet, MaxIds)

SpecRebalance == Init /\ [][NextRebalance]_vars

\* a linear chain with its exclusion boxes and reasons
NextExclusion ==
  \/ AddNodeBelow(NodeIds(graph), MaxChain, MaxChainIds)
  \/ UpdateNodeCount({"undefined"}, {FALSE}, FALSE)
  \/ UpdateExclusionCount
  \/ AddExclusionReason(MaxChainIds)
  \/ UpdateExclusionReasonCount({"undefined"}, MaxChainIds)
  \/ RemoveExclusionReason(MaxChainIds)
  \/ Recompute(SettingsSet, MaxChainIds)

SpecExclusion == Init /\ [][NextExclusion]_vars

\* one interval with its exclusion box: the total, the reason rows with their
\* counts, overrides and labels, the auto row among them
NextReasons ==
  \/ AddNodeBelow(NodeIds(graph), MaxChain, MaxIds)
  \/ UpdateExclusionCount
  \/ AddExclusionReason(MaxIds)
  \/ UpdateExclusionReasonCount({"undefined", "text"}, MaxIds)
  \/ UpdateExclusionReasonLabel(MaxIds)
  \/ RemoveExclusionReason(MaxIds)
  \/ Recompute({AutoSettings}, MaxIds)

SpecReasons == Init /\ [][NextReasons]_vars

\* the same exclusion box with its rows edited and relabelled but never
\* removed, and recomputeGraph with autoCalc on and off
NextLabels ==
  \/ AddNodeBelow(NodeIds(graph), MaxChain, MaxIds)
  \/ UpdateExclusionCount
  \/ AddExclusionReason(MaxIds)
  \/ UpdateExclusionReasonCount({"undefined"}, MaxIds)
  \/ UpdateExclusionReasonLabel(MaxIds)
  \/ Recompute({AutoSettings, NoSettings}, MaxIds)

SpecLabels == Init /\ [][NextLabels]_vars

\* the start node gaining and losing children, the exclusion boxes filled in
\* by the user and by the inference, recomputeGraph with autoCalc on and off
NextBranchExclusion ==
  \/ AddNodeBelow({graph.startNodeId}, MaxNodes, MaxIds)
  \/ RemoveNode
  \/ UpdateExclusionCount
  \/ AddExclusionReason(MaxIds)
  \/ RecomputeBranch({AutoSettings, NoSettings}, MaxIds)

SpecBranchExclusion == Init /\ [][NextBranchExclusion]_vars

\* trees of up to MaxLayoutNodes nodes growing and shrinking, texts of one
\* and of several lines, recomputeGraph with autoCalc off
NextLayout ==
  \/ AddNodeBelow(NodeIds(graph), MaxLayoutNodes, MaxLayoutIds)
  \/ RemoveNode
  \/ UpdateNodeText
  \/ Recompute({NoSettings}, MaxLayoutIds)

SpecLayout == Init /\ [][NextLayout]_vars

\* the shape of the tree and the phases alongside it
NextPhases ==
  \/ AddNodeBelow(NodeIds(graph), MaxNodes, MaxIds)
  \/ RemoveNode
  \/ AddPhase(MaxIds)
  \/ UpdatePhaseBounds
  \/ RemovePhase
  \/ Recompute(SettingsSet, MaxIds)

SpecPhases == Init /\ [][NextPhases]_vars

\* the linear chain of the exclusion specification, and free edit toggled on
\* and off after a recomputeGraph
NextToggle ==
  \/ AddNodeBelow(NodeIds(graph), MaxChain, MaxChainIds)
  \/ UpdateNodeCount({"undefined"}, {FALSE}, FALSE)
  \/ UpdateExclusionCount
  \/ AddExclusionReason(MaxChainIds)
  \/ UpdateExclusionReasonCount({"undefined"}, MaxChainIds)
  \/ RemoveExclusionReason(MaxChainIds)
  \/ Recompute(SettingsSet, MaxChainIds)
  \/ FreeEditRoundTrip(MaxChainIds)

SpecToggle == Init /\ [][NextToggle]_vars

\* the start node while it has no child, its children afterwards
TrunkParents(g) ==
  IF ChildIdsOf(g, g.startNodeId) = <<>> THEN {g.startNodeId}
  ELSE SeqToSet(ChildIdsOf(g, g.startNodeId))

\* a linear interval from the start node and a branch below it, the counts
\* typed in and recomputeGraph in every mode
NextDelta ==
  \/ AddNodeBelow(TrunkParents(graph), MaxNodes + 1, MaxIds)
  \/ UpdateNodeCount({"undefined"}, {FALSE}, FALSE)
  \/ Recompute(SettingsSet, MaxIds)

SpecDelta == Init /\ [][NextDelta]_vars

\* recomputeGraph run again and again on the tree of InitDrift
NextDrift ==
  \/ Recompute(SettingsSet, MaxDriftIds)
  \/ RecomputeTwice(MaxDriftIds)

SpecDrift == InitDrift /\ [][NextDrift]_vars

\* a chain with counts, totals and reasons typed in, recomputed once or twice
\* over in every mode
NextFixedPoint ==
  \/ AddNodeBelow(NodeIds(graph), MaxChain, MaxChainIds)
  \/ UpdateNodeCount({"undefined"}, {FALSE}, FALSE)
  \/ UpdateExclusionCount
  \/ AddExclusionReason(MaxChainIds)
  \/ UpdateExclusionReasonCount({"undefined"}, MaxChainIds)
  \/ Recompute(SettingsSet, MaxChainIds)
  \/ RecomputeAgain(SettingsSet, MaxChainIds)

SpecFixedPoint == Init /\ [][NextFixedPoint]_vars

\* chains of up to MaxNodes nodes, counts and exclusion totals typed in,
\* recomputeGraph in auto mode
NextChain ==
  \/ AddNodeBelow(NodeIds(graph), MaxNodes, MaxChainIds)
  \/ UpdateNodeCount({"undefined"}, {FALSE}, FALSE)
  \/ UpdateExclusionCount
  \/ Recompute({AutoSettings}, MaxChainIds)

SpecChain == Init /\ [][NextChain]_vars

\* trees with phases, anything selected, and the keyboard navigation
NextNavigate ==
  \/ AddNodeBelow(NodeIds(graph), MaxNodes, MaxIds)
  \/ RemoveNode
  \/ AddPhase(MaxIds)
  \/ RemovePhase
  \/ SetSelected
  \/ NavigateSelection

SpecNavigate == Init /\ [][NextNavigate]_vars

\* trees with phases, nodes and phases removed whatever is selected, and
\* recomputeGraph in between
NextSelection ==
  \/ AddNodeBelow(NodeIds(graph), MaxNodes, MaxIds)
  \/ RemoveNodeTracking
  \/ AddPhase(MaxIds)
  \/ RemovePhaseTracking
  \/ SetSelected
  \/ Recompute({AutoSettings}, MaxIds)

SpecSelection == Init /\ [][NextSelection]_vars

\* project files of every kind imported into a store that toggles autoCalc,
\* undoes and redoes
NextImport ==
  \/ OnImportJson(MaxPast, MaxChainIds) /\ UNCHANGED heap
  \/ StoreToggleAutoCalc(MaxPast, MaxChainIds) /\ UNCHANGED heap
  \/ StoreUndo /\ UNCHANGED heap
  \/ StoreRedo /\ UNCHANGED heap

SpecImport == Init /\ [][NextImport]_vars

\* counts formatted for display
NextNumbers ==
  \/ FormatCount

SpecNumbers == InitNumbers /\ [][NextNumbers]_vars

\* calls with ids the graph does not hold, among the operations that build
\* a chain with its reasons and take it down again
NextNotFound ==
  \/ AddNodeBelow(NodeIds(graph), MaxChain, MaxIds)
  \/ AddExclusionReason(MaxIds)
  \/ UpdateExclusionReasonCount({"undefined"}, MaxIds)
  \/ RemoveExclusionReason(MaxIds)
  \/ RemoveUnknownReason(MaxIds)
  \/ RemoveNode
  \/ NotFound
  \/ Recompute(SettingsSet, MaxIds)

SpecNotFound == Init /\ [][NextNotFound]_vars

\* the store with a small graph: history-recording actions, one of them
\* throwing on an unknown id, and undo and redo
NextStore ==
  \/ StoreAddNodeBelow(MaxChain, MaxPast, MaxChainIds) /\ UNCHANGED heap
  \/ StoreUpdateNodeCount(MaxPast, MaxChainIds) /\ UNCHANGED heap
  \/ StoreToggleAutoCalc(MaxPast, MaxChainIds) /\ UNCHANGED heap
  \/ StoreImportSnapshot(MaxPast, MaxChainIds) /\ UNCHANGED heap
  \/ StoreUndo /\ UNCHANGED heap
  \/ StoreRedo /\ UNCHANGED heap

SpecStore == Init /\ [][NextStore]_vars

\* the store with nodes added, undo and redo, and the selection moved by
\* click and by keyboard
NextStoreSelection ==
  \/ StoreAddNodeBelow(MaxNodes, MaxPast, MaxChainIds) /\ UNCHANGED heap
  \/ StoreSelectById /\ UNCHANGED heap
  \/ StoreNavigateSelection /\ UNCHANGED heap
  \/ StoreUndo /\ UNCHANGED heap
  \/ StoreRedo /\ UNCHANGED heap

SpecStoreSelection == Init /\ [][NextStoreSelection]_vars

\* the undo history at its full depth: toggles of autoCalc on the initial
\* graph, undo and redo
NextHistory ==
  \/ StoreToggleAutoCalc(HISTORY_LIMIT + 1, MaxIds) /\ UNCHANGED heap
  \/ StoreUndo /\ UNCHANGED heap
  \/ StoreRedo /\ UNCHANGED heap

SpecHistory == Init /\ [][NextHistory]_vars

\* the store with a small graph and the objects behind its graph and its
\* snapshots
NextObjects ==
  \/ StoreAddNodeBelow(MaxChain, MaxPast, MaxChainIds) /\ RecordObjects
  \/ StoreUpdateNodeCount(MaxPast, MaxChainIds) /\ RecordObjects
  \/ StoreToggleAutoCalc(MaxPast, MaxChainIds) /\ RecordObjects
  \/ StoreUndo /\ UndoObjects
  \/ StoreRedo /\ RedoObjects

SpecObjects == Init /\ [][NextObjects]_vars

(* ------------------------------ properties ----------------------------- *)
\* the intervals of g whose parent has exactly one child
LinearIntervals(g) ==
  {i \in IntervalIds(g) : Len(ChildIdsOf(g, g.intervals[i].parentId)) = 1}

\* the step is a recomputeGraph call in auto mode that returned
RecomputedAuto ==
  /\ last'.op = "recomputeGraph"
  /\ ~last'.threw
  /\ last'.settings = AutoSettings

\* C1 as stated: on every linear interval whose parent count is defined, if
\* exactly one of child.n and exclusion.total is null before recomputeGraph in
\* auto mode, afterwards that field is non-null, parent.n = child.n + total
\* and delta = 0, whatever the defined values are.
C1_AsStated ==
  [][RecomputedAuto =>
       \A i \in LinearIntervals(graph) :
         LET parentId == graph.intervals[i].parentId
             childId == graph.intervals[i].childId
         IN (/\ CountOf(graph, parentId) # Null
             /\ (CountOf(graph, childId) = Null) # (TotalOf(graph.intervals[i]) = Null))
            => /\ CountOf(graph', childId) # Null
               /\ TotalOf(graph'.intervals[i]) # Null
               /\ CountOf(graph', parentId)
                    = Some(CountOf(graph', childId)[1] + TotalOf(graph'.intervals[i])[1])
               /\ graph'.intervals[i].delta = 0]_vars

\* C1 amended: on every linear interval whose parent count is defined, after
\* recomputeGraph in auto mode: a null child.n with a defined total becomes
\* parent.n - total and delta = 0; a null total with child.n < parent.n
\* becomes parent.n - child.n and delta = 0; a null total with
\* child.n >= parent.n stays null and delta = parent.n - child.n.
C1_Inference ==
  [][RecomputedAuto =>
       \A i \in LinearIntervals(graph) :
         LET parentN == CountOf(graph, graph.intervals[i].parentId)
             childN == CountOf(graph, graph.intervals[i].childId)
             total == TotalOf(graph.intervals[i])
             childAfter == CountOf(graph', graph.intervals[i].childId)
             totalAfter == TotalOf(graph'.intervals[i])
             deltaAfter == graph'.intervals[i].delta
         IN parentN # Null =>
              /\ (childN = Null /\ total # Null) =>
                   /\ childAfter = Some(parentN[1] - total[1])
                   /\ totalAfter = total
                   /\ deltaAfter = 0
              /\ (total = Null /\ childN # Null /\ childN[1] < parentN[1]) =>
                   /\ totalAfter = Some(parentN[1] - childN[1])
                   /\ childAfter = childN
                   /\ deltaAfter = 0
              /\ (total = Null /\ childN # Null /\ childN[1] >= parentN[1]) =>
                   /\ totalAfter = Null
                   /\ childAfter = childN
                   /\ deltaAfter = parentN[1] - childN[1]]_vars

\* a recomputeGraph in auto mode has just inferred the total of a linear
\* interval, which now balances
C1_Witness ==
  /\ last.op = "recomputeGraph" /\ ~last.threw /\ last.settings = AutoSettings
  /\ \E i \in last.filledTotals \cap LinearIntervals(graph) :
       /\ CountOf(graph, graph.intervals[i].parentId) # Null
       /\ graph.intervals[i].delta = 0
       /\ TotalOf(graph.intervals[i])[1] > 0

RECURSIVE CountSum(_, _)
\* the sum of the counts (null as 0) of the nodes S of g
CountSum(g, S) ==
  IF S = {} THEN 0
  ELSE LET x == CHOOSE y \in S : TRUE
       IN OrZero(CountOf(g, x)) + CountSum(g, S \ {x})

RECURSIVE TotalSum(_, _)
\* the sum of the exclusion totals (absent or null as 0) of the intervals S of g
TotalSum(g, S) ==
  IF S = {} THEN 0
  ELSE LET x == CHOOSE y \in S : TRUE
       IN OrZero(TotalOf(g.intervals[x])) + TotalSum(g, S \ {x})

\* the intervals of g from parentId to one of the nodes S
IntervalsTo(g, parentId, S) ==
  {i \in IntervalIds(g) : g.intervals[i].parentId = parentId /\ g.intervals[i].childId \in S}

\* the positions of the children of parentId whose count is null in g
NullPositions(g, parentId) ==
  {j \in 1..Len(ChildIdsOf(g, parentId)) : CountOf(g, ChildIdsOf(g, parentId)[j]) = Null}

\* C2 as stated: for every parent with 3 or more children and a defined
\* count, if exactly one child (at any position) had a null count before
\* recomputeGraph in auto mode, afterwards that child's count is parent.n minus
\* the other children's counts and exclusion totals, floored at 0.
C2_AsStated ==
  [][RecomputedAuto =>
       \A p \in NodeIds(graph) :
         LET childIds == graph.nodes[p].childIds
         IN (Len(childIds) >= 3 /\ graph.nodes[p].n # Null
               /\ Cardinality(NullPositions(graph, p)) = 1)
            => \A j \in NullPositions(graph, p) :
                 LET others == SeqToSet(childIds) \ {childIds[j]}
                     value == graph.nodes[p].n[1] - CountSum(graph', others)
                                - TotalSum(graph', IntervalsTo(graph', p, others))
                 IN CountOf(graph', childIds[j]) = Some(Max(0, value))]_vars

\* C2 amended: for every parent with 3 or more children and a defined count,
\* if exactly one child had a null count before recomputeGraph in auto mode:
\* when that child is the last of childIds and parent.n minus the other
\* children's counts is >= 0 it becomes that value, otherwise it stays null;
\* the branch intervals carry no exclusion afterwards.
C2_LastChild ==
  [][RecomputedAuto =>
       \A p \in NodeIds(graph) :
         LET childIds == graph.nodes[p].childIds
         IN (Len(childIds) >= 3 /\ graph.nodes[p].n # Null
               /\ Cardinality(NullPositions(graph, p)) = 1)
            => /\ \A j \in NullPositions(graph, p) :
                    LET others == SeqToSet(childIds) \ {childIds[j]}
                        value == graph.nodes[p].n[1] - CountSum(graph', others)
                    IN CountOf(graph', childIds[j]) =
                         IF j = Len(childIds) /\ value >= 0 THEN Some(value) ELSE Null
               /\ \A i \in IntervalsTo(graph', p, SeqToSet(childIds)) :
                    graph'.intervals[i].exclusion = Null]_vars

\* a recomputeGraph in auto mode has just filled the last of three children,
\* the only one that was null, with what the others leave of the parent
C2_Witness ==
  /\ last.op = "recomputeGraph" /\ ~last.threw /\ last.settings = AutoSettings
  /\ \E p \in NodeIds(graph) :
       LET childIds == graph.nodes[p].childIds
       IN /\ Len(childIds) = 3
          /\ graph.nodes[p].n # Null
          /\ last.filledCounts = {childIds[3]}
          /\ NullPositions(graph, p) = {}
          /\ graph.nodes[childIds[3]].n = Some(1)

\* C3 as stated: a parent with count N has three children, the third still
\* holding its even-split share floor(N / 3); the user has typed child1 = a
\* and child2 = b (a + b <= N) and nothing else since the last recomputeGraph;
\* after recomputeGraph in auto mode child3 = N - a - b.
C3_AsStated ==
  [][RecomputedAuto =>
       \A p \in NodeIds(graph) :
         LET childIds == graph.nodes[p].childIds
             N == graph.nodes[p].n
             a == CountOf(graph, childIds[1])
             b == CountOf(graph, childIds[2])
         IN (/\ Len(childIds) = 3
             /\ N # Null
             /\ last.op = "updateNodeCount"
             /\ last.typed = {childIds[1], childIds[2]}
             /\ a # Null /\ b # Null
             /\ a[1] + b[1] <= N[1]
             /\ CountOf(graph, childIds[3]) = Some(N[1] \div 3))
            => CountOf(graph', childIds[3]) = Some(N[1] - a[1] - b[1])]_vars

\* the parents of g that list nodeId among exactly two children and have a
\* defined count
TwoChildParents(g, nodeId) ==
  {p \in NodeIds(g) : /\ Len(g.nodes[p].childIds) = 2
                      /\ nodeId \in SeqToSet(g.nodes[p].childIds)
                      /\ g.nodes[p].n # Null}

\* C4: for every parent with exactly two children and a defined count, after
\* updateNodeCount(child, v) without skipBranchRebalance the other child's
\* count is max(0, parent.n - v) (a null v counting as 0), the other child's
\* countOverride is cleared, and the edited child's count is v.
C4_Rebalance ==
  [][(last'.op = "updateNodeCount" /\ ~last'.skip) =>
       \A p \in TwoChildParents(graph, last'.target) :
         \A other \in SeqToSet(graph.nodes[p].childIds) \ {last'.target} :
           LET v == OrZero(last'.value)
               parentN == graph.nodes[p].n[1]
           IN /\ graph'.nodes[other].n = Some(IF parentN - v > 0 THEN parentN - v ELSE 0)
              /\ graph'.nodes[other].countOverride = "undefined"
              /\ graph'.nodes[last'.target].n = last'.value
              /\ graph'.nodes[p].n = graph.nodes[p].n]_vars

\* updateNodeCount has just put more into one of two children than the parent
\* holds, and the sibling stands at 0
C4_Witness ==
  /\ last.op = "updateNodeCount" /\ ~last.skip /\ last.value # Null
  /\ \E p \in TwoChildParents(graph, last.target) :
       /\ last.value[1] > graph.nodes[p].n[1]
       /\ \A other \in SeqToSet(graph.nodes[p].childIds) \ {last.target} :
            graph.nodes[other].n = Some(0)

C6_AsStated ==
  (last.op = "recomputeGraph" /\ ~last.threw /\ last.settings = AutoSettings) =>
    \A i \in LinearIntervals(graph) :
      graph.intervals[i].exclusion # Null =>
        LET exclusion == graph.intervals[i].exclusion[1]
            users == SelectSeq(exclusion.reasons, IsUser)
            autos == SelectSeq(exclusion.reasons, IsAuto)
            sumUser == SumReasons(users)
        IN /\ (Len(users) > 0 /\ exclusion.total # Null /\ exclusion.total[1] # sumUser)
                => \E k \in 1..Len(autos) : autos[k].n = Some(exclusion.total[1] - sumUser)
           /\ (Len(users) = 0 \/ (exclusion.total # Null /\ exclusion.total[1] = sumUser))
                => autos = <<>>

\* C7 as stated: recomputeGraph never throws, for every graph reachable by
\* the mutation operations and for every settings value.
C7_AsStated == last.op = "recomputeGraph" => ~last.threw

\* the 0-based main-flow index of a node id of g, -1 when it is no main-flow node
MainIndex(g, id) == IndexOr(getMainFlowNodes(g), id, -1)

\* C8 as stated: after every recomputeGraph and after addPhase, every phase
\* has index(start) <= index(end) and each phase starts after the end of the
\* phase created before it: index(p[k+1].start) >= index(p[k].end) + 1.
C8_AsStated ==
  ((last.op = "recomputeGraph" \/ last.op = "addPhase") /\ ~last.threw) =>
    /\ \A k \in 1..Len(graph.phases) :
         MainIndex(graph, graph.phases[k].startNodeId)
           <= MainIndex(graph, graph.phases[k].endNodeId)
    /\ \A k \in 1..(Len(graph.phases) - 1) :
         MainIndex(graph, graph.phases[k + 1].startNodeId)
           >= MainIndex(graph, graph.phases[k].endNodeId) + 1

\* the intervals of g that end in childId
IncomingIntervals(g, childId) == {i \in IntervalIds(g) : g.intervals[i].childId = childId}

RECURSIVE AncestorsOf(_, _, _)
\* the nodes reached from the nodes S by one to `fuel` steps from child to parent
AncestorsOf(g, S, fuel) ==
  IF fuel = 0 THEN {}
  ELSE LET parents == {g.intervals[i].parentId :
                         i \in {j \in IntervalIds(g) : g.intervals[j].childId \in S}}
       IN parents \cup AncestorsOf(g, parents, fuel - 1)

\* C9: after any sequence of mutation operations the nodes and intervals form
\* a tree: every id in a childIds list is a node, every interval's parentId
\* and childId are nodes, every node but the start node has exactly one
\* incoming interval and that interval's parent lists it in childIds, every
\* (parent, child) pair of a childIds list has exactly one interval, and no
\* node is its own ancestor.
C9_Tree ==
  /\ \A id \in NodeIds(graph) : SeqToSet(graph.nodes[id].childIds) \subseteq NodeIds(graph)
  /\ \A i \in IntervalIds(graph) :
       /\ graph.intervals[i].parentId \in NodeIds(graph)
       /\ graph.intervals[i].childId \in NodeIds(graph)
  /\ \A id \in NodeIds(graph) \ {graph.startNodeId} :
       /\ Cardinality(IncomingIntervals(graph, id)) = 1
       /\ \A i \in IncomingIntervals(graph, id) :
            id \in SeqToSet(ChildIdsOf(graph, graph.intervals[i].parentId))
  /\ \A p \in NodeIds(graph) :
       \A c \in SeqToSet(graph.nodes[p].childIds) :
         Cardinality(IntervalsTo(graph, p, {c})) = 1
  /\ \A id \in NodeIds(graph) :
       id \notin AncestorsOf(graph, {id}, Cardinality(NodeIds(graph)))

\* removeNode has just removed a node of the graph, and another node with its
\* interval is still there
C9_Witness ==
  /\ last.op = "removeNode"
  /\ last.target < nextId
  /\ last.target \notin NodeIds(graph)
  /\ Cardinality(NodeIds(graph)) = 2
  /\ Cardinality(IntervalIds(graph)) = 1

\* C10 as stated: after every mutation operation, removeNode in particular,
\* every phase's startNodeId and endNodeId are nodes of the graph.
C10_AsStated ==
  \A k \in 1..Len(graph.phases) :
    /\ graph.phases[k].startNodeId \in NodeIds(graph)
    /\ graph.phases[k].endNodeId \in NodeIds(graph)

\* r and the nodes of g that have r among their ancestors
SubtreeOf(g, r) ==
  {r} \cup {d \in NodeIds(g) : r \in AncestorsOf(g, {d}, Cardinality(NodeIds(g)))}

\* C11: removeNode(g, r) for a node r other than the start node removes r
\* and every descendant of r from the nodes, removes every interval whose
\* parentId or childId is r or a descendant, removes r from its former
\* parent's childIds, leaves every other node and interval as it was (the
\* layout position aside), and selects r's former parent.
C11_RemoveSubtree ==
  [][(/\ last'.op = "removeNode"
      /\ last'.target \in NodeIds(graph)
      /\ last'.target # graph.startNodeId) =>
       LET r == last'.target
           gone == SubtreeOf(graph, r)
           keptIntervals == {i \in IntervalIds(graph) :
                               /\ graph.intervals[i].parentId \notin gone
                               /\ graph.intervals[i].childId \notin gone}
       IN /\ NodeIds(graph') = NodeIds(graph) \ gone
          /\ IntervalIds(graph') = keptIntervals
          /\ \A i \in keptIntervals : graph'.intervals[i] = graph.intervals[i]
          /\ \A i \in IncomingIntervals(graph, r) :
               LET parentId == graph.intervals[i].parentId
               IN /\ graph'.nodes[parentId].childIds =
                       SelectSeq(graph.nodes[parentId].childIds, LAMBDA c : c # r)
                  /\ graph'.selectedId = parentId
          /\ \A id \in NodeIds(graph) \ gone :
               /\ graph'.nodes[id].n = graph.nodes[id].n
               /\ graph'.nodes[id].countOverride = graph.nodes[id].countOverride
               /\ graph'.nodes[id].textLines = graph.nodes[id].textLines
               /\ (r \notin SeqToSet(graph.nodes[id].childIds)
                     => graph'.nodes[id].childIds = graph.nodes[id].childIds)]_vars

\* removeNode has just removed the only child of a node below the start
\* node: that node is selected, has no children left, and its own interval
\* is the one that remains
C11_Witness ==
  /\ last.op = "removeNode"
  /\ last.target < nextId
  /\ last.target \notin NodeIds(graph)
  /\ graph.selectedId \in NodeIds(graph) \ {graph.startNodeId}
  /\ graph.nodes[graph.selectedId].childIds = <<>>
  /\ IntervalIds(graph) = IncomingIntervals(graph, graph.selectedId)
  /\ Cardinality(IntervalIds(graph)) = 1

\* C12: the start node is permanent: after every operation startNodeId is
\* what it was and names a node of the graph, and removeNode(g, startNodeId)
\* returns a graph with the nodes, intervals, phases and selection of g.
C12_StartPermanent ==
  [][/\ graph'.startNodeId = graph.startNodeId
     /\ graph'.startNodeId \in NodeIds(graph')
     /\ (last'.op = "removeNode" /\ last'.target = graph.startNodeId) =>
          /\ graph'.nodes = graph.nodes
          /\ graph'.intervals = graph.intervals
          /\ graph'.phases = graph.phases
          /\ graph'.selectedId = graph.selectedId]_vars

\* removeNode has just been called on the start node of a graph that has
\* other nodes and a phase, with another node selected
C12_Witness ==
  /\ last.op = "removeNode"
  /\ last.target = graph.startNodeId
  /\ Cardinality(NodeIds(graph)) >= 2
  /\ Len(graph.phases) >= 1
  /\ graph.selectedId # graph.startNodeId

\* C13 as stated: every mutation operation called with a node, interval or
\* reason id the graph does not hold throws a not-found error and produces no
\* new state, removeNode with an unknown node id and removeExclusionReason
\* with an unknown reason id included.  (An id at or above nextId was never
\* handed out.)
C13_AsStated == last.target >= nextId => last.threw

\* the store actions that push a history snapshot
RecordingOps ==
  {"actions.addNodeBelow", "actions.updateNodeCount", "actions.toggleAutoCalc",
   "actions.importSnapshot"}

\* C14: when a store action's mutation throws, the store's graph, settings
\* and history (past and future) are what they were before the action.
C14_FailedAction ==
  [][(last'.op \in RecordingOps /\ last'.threw) =>
       /\ graph' = graph
       /\ storeSettings' = storeSettings
       /\ history' = history]_vars

\* actions.updateNodeCount has just thrown on an unknown node id while both
\* the undo and the redo stack held snapshots
C14_Witness ==
  /\ last.op = "actions.updateNodeCount"
  /\ last.threw
  /\ last.target \notin NodeIds(graph)
  /\ history.past # <<>>
  /\ history.future # <<>>

\* the counts of the reasons of an interval's exclusion, in order
ReasonCounts(interval) ==
  IF interval.exclusion = Null THEN <<>>
  ELSE [k \in 1..Len(interval.exclusion[1].reasons) |-> interval.exclusion[1].reasons[k].n]

\* C15 as stated: for every graph g produced by recomputeGraph with
\* freeEdit = false, recomputing with freeEdit = true and then again with
\* freeEdit = false, nothing edited in between, yields the node counts,
\* exclusion totals and reason counts of g.
C15_AsStated ==
  [][(last'.op = "freeEditRoundTrip" /\ ~last'.threw) =>
       /\ NodeIds(graph') = NodeIds(graph)
       /\ IntervalIds(graph') = IntervalIds(graph)
       /\ \A id \in NodeIds(graph) : graph'.nodes[id].n = graph.nodes[id].n
       /\ \A i \in IntervalIds(graph) :
            /\ TotalOf(graph'.intervals[i]) = TotalOf(graph.intervals[i])
            /\ ReasonCounts(graph'.intervals[i]) = ReasonCounts(graph.intervals[i])]_vars

\* C16 as stated: in unlock mode (autoCalc = false, freeEdit = false)
\* recomputeGraph performs no auto-calculation: it changes no node's count
\* and no exclusion's total, for linear and branching parents alike.
C16_AsStated ==
  [][(last'.op = "recomputeGraph" /\ ~last'.threw /\ last'.settings = NoSettings) =>
       /\ \A id \in NodeIds(graph) : graph'.nodes[id].n = graph.nodes[id].n
       /\ \A i \in IntervalIds(graph) :
            TotalOf(graph'.intervals[i]) = TotalOf(graph.intervals[i])]_vars

\* the delta the final counts of g call for on interval i: the parent's count
\* less all its children's for a parent with several children, the parent's
\* count less the child's and the exclusion total for a single child
ExpectedDelta(g, i) ==
  LET parentId == g.intervals[i].parentId
      kids == ChildIdsOf(g, parentId)
  IN IF Len(kids) > 1
     THEN OrZero(CountOf(g, parentId)) - CountSum(g, SeqToSet(kids))
     ELSE OrZero(CountOf(g, parentId))
            - (OrZero(CountOf(g, g.intervals[i].childId)) + OrZero(TotalOf(g.intervals[i])))

\* C17: after every recomputeGraph call, in every mode, each interval's delta
\* agrees with the final counts of the returned graph: parent.n less the sum
\* of all children's n on every sibling interval of a parent with more than
\* one child, parent.n - (child.n + exclusion.total) for a single child, null
\* counting as 0.
C17_Delta ==
  (last.op = "recomputeGraph" /\ ~last.threw) =>
    \A i \in IntervalIds(graph) : graph.intervals[i].delta = ExpectedDelta(graph, i)

\* a recomputed graph with an unbalanced linear interval that has an
\* exclusion total, above an unbalanced branch
C17_Witness ==
  /\ last.op = "recomputeGraph" /\ ~last.threw
  /\ \E i \in IntervalIds(graph) :
       /\ Len(ChildIdsOf(graph, graph.intervals[i].parentId)) = 1
       /\ OrZero(TotalOf(graph.intervals[i])) # 0
       /\ graph.intervals[i].delta # 0
  /\ \E i \in IntervalIds(graph) :
       /\ Len(ChildIdsOf(graph, graph.intervals[i].parentId)) > 1
       /\ graph.intervals[i].delta # 0

\* the counts of the auto reasons of every exclusion of g
AutoRows(g) ==
  [i \in IntervalIds(g) |->
     IF g.intervals[i].exclusion = Null THEN <<>>
     ELSE LET autos == AutoReasonsOf(g.intervals[i].exclusion[1])
          IN [k \in 1..Len(autos) |-> autos[k].n]]

\* C18 as stated: running recomputeGraph twice in a row with the same
\* settings on an already-consistent graph (one that recomputeGraph has
\* produced with those settings) yields the same auto reason, in presence and
\* in n, in every exclusion as running it once; likewise when the second run
\* has autoCalc = false.
C18_AsStated ==
  [][(last'.op = "recomputeTwice" /\ ~last'.threw) =>
       AutoRows(graph') = AutoRows(recomputeGraph(graph, last.settings, nextId).graph)]_vars

\* C19: after any sequence of store actions (mutations, toggles, undo, redo)
\* history.past never holds more than HISTORY_LIMIT (100) snapshots, and a
\* push onto a full past evicts the oldest snapshot: the rest move up one
\* place and the new snapshot comes last.
C19_BoundedPast ==
  [][/\ Len(history'.past) <= HISTORY_LIMIT
     /\ (last'.op \in RecordingOps /\ ~last'.threw /\ Len(history.past) = HISTORY_LIMIT) =>
          history'.past = Tail(history.past) \o <<cloneSnapshot(graph, storeSettings)>>]_vars

\* a toggle has just pushed onto a full past: the first snapshot ever pushed
\* had autoCalc on, the oldest one kept has it off
C19_Witness ==
  /\ last.op = "actions.toggleAutoCalc" /\ ~last.threw
  /\ Len(history.past) = HISTORY_LIMIT
  /\ ~history.past[1].settings.autoCalc

\* C20: whenever a history-recording store action (a mutation, a toggle or
\* an import) is applied, after one or more undos included, history.future
\* becomes empty, and a redo on an empty future leaves graph, settings and
\* history as they were.
C20_FutureCleared ==
  [][/\ (last'.op \in RecordingOps /\ ~last'.threw) => history'.future = <<>>
     /\ (last'.op = "actions.redo" /\ history.future = <<>>) =>
          /\ graph' = graph
          /\ storeSettings' = storeSettings
          /\ history' = history]_vars

\* a recording action has just been applied after an undo and has emptied a
\* future that held snapshots
C20_Witness ==
  /\ last.op \in RecordingOps /\ ~last.threw
  /\ last.cleared > 0
  /\ history.future = <<>>

\* graph and settings of the store as they are now
Shown == [graph |-> graph, settings |-> storeSettings]
\* graph and settings of the store after the step
ShownNext == [graph |-> graph', settings |-> storeSettings']

\* C21: undo and redo are inverse. A successful history-recording action
\* applied in state S leaves S (graph with its selection, and settings) as the
\* newest entry of past; undo shows exactly the newest entry of past and puts
\* what was shown in front of future; redo shows exactly the first entry of
\* future and puts what was shown back on past; undo with an empty past and
\* redo with an empty future change nothing.
C21_UndoRedoInverse ==
  [][/\ (last'.op \in RecordingOps /\ ~last'.threw) =>
          history'.past[Len(history'.past)] = Shown
     /\ (last'.op = "actions.undo" /\ history.past # <<>>) =>
          /\ ShownNext = history.past[Len(history.past)]
          /\ history'.past = SubSeq(history.past, 1, Len(history.past) - 1)
          /\ history'.future = <<Shown>> \o history.future
     /\ (last'.op = "actions.redo" /\ history.future # <<>>) =>
          /\ ShownNext = history.future[1]
          /\ history'.past = Append(history.past, Shown)
          /\ history'.future = Tail(history.future)
     /\ (last'.op = "actions.undo" /\ history.past = <<>>) =>
          (ShownNext = Shown /\ history' = history)
     /\ (last'.op = "actions.redo" /\ history.future = <<>>) =>
          (ShownNext = Shown /\ history' = history)]_vars

\* a redo has just brought back the state after an action that changed both
\* the graph and the settings kept in the snapshot below it
C21_Witness ==
  /\ last.op = "actions.redo"
  /\ history.past # <<>>
  /\ history.past[Len(history.past)].graph # graph
  /\ \E k \in 1..Len(history.past) : history.past[k].settings # defaultSettings

RECURSIVE Grouped(_)
\* the digits of a natural number in blocks of three counted from the right,
\* one separator between adjacent blocks
Grouped(m) ==
  IF m < 1000 THEN DecimalDigits(m)
  ELSE Grouped(m \div 1000)
         \o <<Separator, DigitChars[((m \div 100) % 10) + 1],
              DigitChars[((m \div 10) % 10) + 1], DigitChars[(m % 10) + 1]>>

\* the text the grouping rule calls for
GroupedText(n) ==
  IF n.kind # "int" THEN <<Placeholder>>
  ELSE IF n.v < 0 THEN <<"-">> \o Grouped(-n.v) ELSE Grouped(n.v)

\* C22 as stated: formatInteger groups every integer, negative ones included,
\* into blocks of three digits counted from the right with exactly one
\* separator between adjacent blocks and none next to the sign; null and NaN
\* give the placeholder; formatCount wraps the result as 'N = ...' or
\* '(n = ...)' by countFormat.
C22_AsStated ==
  (last.op = "formatCount") =>
    /\ last.fmt.integer = GroupedText(last.fmt.n)
    /\ last.fmt.count = IF last.fmt.countFormat = "parenthetical"
                        THEN <<"(n = ">> \o GroupedText(last.fmt.n) \o <<")">>
                        ELSE <<"N = ">> \o GroupedText(last.fmt.n)

\* every id the graph holds: nodes, intervals and phases
AllIds(g) == NodeIds(g) \cup IntervalIds(g) \cup PhaseIds(g)

\* C23: whenever the selection resolves, navigateSelection returns an id that
\* exists in the graph. From a node: down gives its first child (the node
\* itself for a leaf), up its parent (the node itself for the root), right the
\* interval to its first child, left its incoming interval. From an interval:
\* up and left give its parent, down and right its child. From a phase: the
\* phase id.
C23_Navigate ==
  (last.op = "navigateSelection" /\ graph.selectedId \in AllIds(graph)) =>
    LET sel == graph.selectedId
        res == last.target
        dir == last.direction
    IN /\ res \in AllIds(graph)
       /\ sel \in NodeIds(graph) =>
            LET kids == ChildIdsOf(graph, sel)
                incoming == {i \in IntervalIds(graph) : graph.intervals[i].childId = sel}
            IN /\ dir = "down" => res = IF kids = <<>> THEN sel ELSE kids[1]
               /\ dir = "up" =>
                    IF incoming = {} THEN res = sel
                    ELSE \E i \in incoming : res = graph.intervals[i].parentId
               /\ (dir = "right" /\ kids # <<>>) =>
                    /\ res \in IntervalIds(graph)
                    /\ graph.intervals[res].parentId = sel
                    /\ graph.intervals[res].childId = kids[1]
               /\ (dir = "left" /\ incoming # {}) => res \in incoming
               /\ (dir = "right" /\ kids = <<>>) => res = sel
               /\ (dir = "left" /\ incoming = {}) => res = sel
       /\ sel \in IntervalIds(graph) =>
            res = IF dir \in {"up", "left"} THEN graph.intervals[sel].parentId
                  ELSE graph.intervals[sel].childId
       /\ sel \in PhaseIds(graph) => res = sel

\* right was pressed on a node with two children, in a graph that has a
\* phase, and an interval of the graph came back
C23_Witness ==
  /\ last.op = "navigateSelection" /\ last.direction = "right"
  /\ graph.selectedId \in NodeIds(graph)
  /\ Len(ChildIdsOf(graph, graph.selectedId)) = 2
  /\ graph.phases # <<>>
  /\ last.target \in IntervalIds(graph)

\* C24: import accepts a parsed value only if version = 1 and both graph and
\* settings are non-null objects; for a rejected or unparsable file, and for
\* an accepted one on which recompute throws, graph, settings and history of
\* the store stay exactly as they were.
C24_Import ==
  [][(last'.op = "onImportJson") =>
       LET file == last'.file
           wellTyped == /\ file.parses /\ file.type = "object" /\ file.version = 1
                        /\ file.graph.type = "object" /\ file.settings.type = "object"
           kept == graph' = graph /\ storeSettings' = storeSettings /\ history' = history
       IN /\ ~wellTyped => (last'.threw /\ kept)
          /\ last'.threw => kept
          /\ ~last'.threw =>
               /\ wellTyped
               /\ storeSettings' = file.settings.content
               /\ history'.past[Len(history'.past)] = Shown]_vars

\* a file of the right shape whose graph makes recompute throw has just been
\* imported into a store that had history, and so has been turned down
C24_Witness ==
  /\ last.op = "onImportJson" /\ last.threw
  /\ last.file.parses /\ last.file.type = "object" /\ last.file.version = 1
  /\ last.file.graph.type = "object" /\ last.file.graph.hasNodes
  /\ last.file.settings.type = "object"
  /\ history.past # <<>>

\* C25: addNodeBelow(g, parentId) adds exactly one node, with a null count and
\* no children, at the end of the parent's childIds, the children already
\* there keeping their order; it creates exactly one interval, from parentId
\* to the new node, and selects the new node. This holds for a first child and
\* for any later child.
C25_AddNodeBelow ==
  [][(last'.op = "addNodeBelow" /\ ~last'.threw) =>
       LET parentId == last'.target
           added == NodeIds(graph') \ NodeIds(graph)
           linked == IntervalIds(graph') \ IntervalIds(graph)
       IN /\ NodeIds(graph) \subseteq NodeIds(graph')
          /\ IntervalIds(graph) \subseteq IntervalIds(graph')
          /\ Cardinality(added) = 1
          /\ Cardinality(linked) = 1
          /\ \A new \in added :
               /\ graph'.nodes[new].n = Null
               /\ graph'.nodes[new].childIds = <<>>
               /\ graph'.nodes[parentId].childIds = Append(graph.nodes[parentId].childIds, new)
               /\ graph'.selectedId = new
               /\ \A i \in linked : /\ graph'.intervals[i].parentId = parentId
                                    /\ graph'.intervals[i].childId = new
          /\ \A id \in NodeIds(graph) \ {parentId} :
               graph'.nodes[id].childIds = graph.nodes[id].childIds
          /\ \A i \in IntervalIds(graph) :
               /\ graph'.intervals[i].parentId = graph.intervals[i].parentId
               /\ graph'.intervals[i].childId = graph.intervals[i].childId]_vars

\* a second (branch) child has just been added below a node and is selected
C25_Witness ==
  /\ last.op = "addNodeBelow" /\ ~last.threw
  /\ Len(ChildIdsOf(graph, last.target)) = 2
  /\ graph.selectedId = ChildIdsOf(graph, last.target)[2]

\* C26: every mutation and recomputeGraph returns a GraphState that shares
\* no part with its input: after every store action the object that was the
\* action's input still holds the graph it held, the object now shown holds
\* the result, and every snapshot in past and future holds what it held when
\* it was taken.
C26_Independent ==
  [][/\ Deref(heap'.cells, heap'.input) = PartsOf(graph)
     /\ Deref(heap'.cells, heap'.current) = PartsOf(graph')
     /\ Len(heap'.past) = Len(history'.past)
     /\ Len(heap'.future) = Len(history'.future)
     /\ \A k \in 1..Len(history'.past) :
          Deref(heap'.cells, heap'.past[k]) = PartsOf(history'.past[k].graph)
     /\ \A k \in 1..Len(history'.future) :
          Deref(heap'.cells, heap'.future[k]) = PartsOf(history'.future[k].graph)]_vars

\* a recording action returned while two snapshots are kept, the older one
\* with intervals unlike those now shown
C26_Witness ==
  /\ last.op \in RecordingOps
  /\ ~last.threw
  /\ Len(history.past) = 2
  /\ history.past[1].graph.intervals # graph.intervals
  /\ heap.input # heap.current

\* C27: recomputeGraph with freeEdit on changes no node's count and no
\* linear interval's exclusion total, whatever autoCalc is.
C27_FreeEditFrame ==
  [][(last'.op = "recomputeGraph" /\ ~last'.threw /\ last'.settings.freeEdit) =>
       /\ \A id \in NodeIds(graph) : graph'.nodes[id].n = graph.nodes[id].n
       /\ \A i \in LinearIntervals(graph') :
            TotalOf(graph'.intervals[i]) = TotalOf(graph.intervals[i])]_vars

\* recomputeGraph returned with freeEdit and autoCalc on, on a graph where a
\* branching parent with a count has only unset children (the even split
\* would fire) and a linear interval without total joins a parent count
\* above the child's (the total would be inferred)
C27_Witness ==
  /\ last.op = "recomputeGraph"
  /\ ~last.threw
  /\ last.settings.freeEdit
  /\ last.settings.autoCalc
  /\ \E id \in NodeIds(graph) :
       /\ Len(graph.nodes[id].childIds) > 1
       /\ graph.nodes[id].n # Null
       /\ \A k \in 1..Len(graph.nodes[id].childIds) :
            CountOf(graph, graph.nodes[id].childIds[k]) = Null
  /\ \E i \in LinearIntervals(graph) :
       /\ TotalOf(graph.intervals[i]) = Null
       /\ CountOf(graph, graph.intervals[i].parentId) # Null
       /\ CountOf(graph, graph.intervals[i].childId) # Null
       /\ CountOf(graph, graph.intervals[i].parentId)[1]
            > CountOf(graph, graph.intervals[i].childId)[1]

\* C28 as stated: the even split fires at most once per branch group: a
\* recomputeGraph never sets every child of a group that has received the
\* even split before, whatever count edits came in between.
C28_AsStated ==
  [][last'.op = "recomputeGraph" => SplitGroups(graph, graph') \cap last.split = {}]_vars

\* the auto row of interval i, if it is shown
AutoRowOf(g, i) ==
  IF g.intervals[i].exclusion = Null THEN <<>>
  ELSE AutoReasonsOf(g.intervals[i].exclusion[1])

\* C29 as stated: once the auto reason of an exclusion has been given a
\* custom label, every auto reason shown for that exclusion later carries
\* that label, also after the remainder passed through zero.
C29_AsStated ==
  \A i \in last.custom :
    \A k \in 1..Len(AutoRowOf(graph, i)) :
      AutoRowOf(graph, i)[k].label = "Lost to follow-up"

\* the intervals of g that hold a reason with this id
IntervalsOfReason(g, reasonId) ==
  {i \in IntervalIds(g) :
     /\ g.intervals[i].exclusion # Null
     /\ reasonId \in ReasonIds(g.intervals[i].exclusion[1])}

\* C30 as stated: outside free edit, updateExclusionReasonCount,
\* updateExclusionReasonLabel and removeExclusionReason called with the id of
\* an auto reason are ignored: the auto reason keeps its id, label, n and
\* countOverride.
C30_AsStated ==
  [][(/\ last'.op \in {"updateExclusionReasonCount", "updateExclusionReasonLabel",
                       "removeExclusionReason"}
      /\ ~last'.threw) =>
       \A i \in IntervalsOfReason(graph, last'.target) :
         (\E k \in 1..Len(AutoRowOf(graph, i)) : AutoRowOf(graph, i)[k].id = last'.target)
           => AutoRowOf(graph', i) = AutoRowOf(graph, i)]_vars

\* the exclusion recomputeGraph made for interval i of h is a new one: label
\* "Excluded", no reasons, and a total out of `totals`
FreshExclusion(h, i, totals) ==
  /\ h.intervals[i].exclusion # Null
  /\ h.intervals[i].exclusion[1].label = "Excluded"
  /\ h.intervals[i].exclusion[1].reasons = <<>>
  /\ h.intervals[i].exclusion[1].total \in totals

\* the total the linear step of this recomputeGraph infers for a new
\* exclusion on interval i of h, if any
InferredFor(h, i, settings) ==
  LET parentN == CountOf(h, h.intervals[i].parentId)
      childN == CountOf(h, h.intervals[i].childId)
  IN IF settings.autoCalc /\ ~settings.freeEdit /\ parentN # Null /\ childN # Null
     THEN {inferredTotal(parentN[1], childN[1])}
     ELSE {}

\* the step is a recomputeGraph call that returned
Recomputed ==
  /\ last'.op = "recomputeGraph"
  /\ ~last'.threw

\* C31 as stated: after every recomputeGraph call an interval has an
\* exclusion exactly when its parent has one child, and a single-child
\* interval that had none holds the default one: label "Excluded", null
\* total, no reasons.
C31_AsStated ==
  [][Recomputed =>
       \A i \in IntervalIds(graph') :
         /\ graph'.intervals[i].exclusion # Null <=> i \in LinearIntervals(graph')
         /\ (i \in LinearIntervals(graph') /\ graph.intervals[i].exclusion = Null)
              => FreshExclusion(graph', i, {Null})]_vars

\* C31 amended: as C31_AsStated, but the total of the exclusion just created
\* is null or the total the same call inferred for it in auto mode.
C31_ExclusionIffLinear ==
  [][Recomputed =>
       \A i \in IntervalIds(graph') :
         /\ graph'.intervals[i].exclusion # Null <=> i \in LinearIntervals(graph')
         /\ (i \in LinearIntervals(graph') /\ graph.intervals[i].exclusion = Null)
              => FreshExclusion(graph', i, {Null} \cup InferredFor(graph', i, last'.settings))]_vars

\* recomputeGraph returned on a graph whose start node branches, after it
\* cleared a filled-in exclusion
C31_Witness ==
  /\ last.op = "recomputeGraph"
  /\ ~last.threw
  /\ Len(ChildIdsOf(graph, graph.startNodeId)) > 1
  /\ last.discarded # {}
  /\ \A i \in IntervalIds(graph) : graph.intervals[i].exclusion = Null

\* C39: a recomputeGraph discards the exclusion of every interval whose
\* parent has a second child; once the second child is removed again, the
\* next recomputeGraph gives the interval a new default exclusion (label
\* "Excluded", no reasons, total null or inferred again), not the one it had
\* before branching.
C39_BranchDiscards ==
  [][Recomputed =>
       /\ \A i \in IntervalIds(graph) \ LinearIntervals(graph) :
            graph'.intervals[i].exclusion = Null
       /\ \A i \in last.discarded \cap LinearIntervals(graph) :
            graph.intervals[i].exclusion = Null
              => FreshExclusion(graph', i, {Null} \cup InferredFor(graph', i, last'.settings))]_vars

\* recomputeGraph returned on a single-child interval whose filled-in
\* exclusion was discarded while its parent branched: it holds an exclusion
\* again, with a total inferred anew
C39_Witness ==
  /\ last.op = "recomputeGraph"
  /\ ~last.threw
  /\ \E i \in last.discarded \cap LinearIntervals(graph) :
       /\ graph.intervals[i].exclusion # Null
       /\ graph.intervals[i].exclusion[1].total # Null
       /\ graph.intervals[i].exclusion[1].reasons = <<>>

\* C32 as stated: no mutation operation performs layout or recompute: every
\* one of them, addNodeBelow and removeNode included, leaves the position of
\* every node that was there before and survives, and the delta of every
\* surviving interval, unchanged.
C32_AsStated ==
  [][(last'.op # "recomputeGraph" /\ ~last'.threw) =>
       /\ \A id \in NodeIds(graph) \cap NodeIds(graph') :
            /\ graph'.nodes[id].x = graph.nodes[id].x
            /\ graph'.nodes[id].y = graph.nodes[id].y
       /\ \A i \in IntervalIds(graph) \cap IntervalIds(graph') :
            graph'.intervals[i].delta = graph.intervals[i].delta]_vars

\* the step is an operation that ends with layoutGraphInPlace; removeNode
\* of the start node returns before it
LaidOut ==
  /\ last'.op \in {"addNodeBelow", "removeNode", "recomputeGraph"}
  /\ last'.op = "removeNode" => last'.target # graph.startNodeId
  /\ ~last'.threw

\* the left and right edge of the slot of node id
SlotLeft(g, id) == g.nodes[id].x - (computeWidth(g.nodes, id) \div 2)
SlotRight(g, id) == g.nodes[id].x + (computeWidth(g.nodes, id) \div 2)

\* C38: after layout the start node is at x = 0, y = 0; the children of a
\* parent share the y parent.y + parent height + LEVEL_GAP_Y, their x
\* increase in childIds order, their slots are centred under the parent's x
\* and the slots of sibling subtrees do not overlap.
C38_Layout ==
  [][LaidOut =>
       /\ graph'.nodes[graph'.startNodeId].x = 0
       /\ graph'.nodes[graph'.startNodeId].y = 0
       /\ \A p \in NodeIds(graph') :
            LET childIds == graph'.nodes[p].childIds
                k == Len(childIds)
            IN k > 0 =>
                 /\ \A j \in 1..k :
                      graph'.nodes[childIds[j]].y =
                        graph'.nodes[p].y + computeNodeHeight(graph'.nodes[p]) + LEVEL_GAP_Y
                 /\ \A j \in 1..(k - 1) :
                      /\ graph'.nodes[childIds[j]].x < graph'.nodes[childIds[j + 1]].x
                      /\ SlotRight(graph', childIds[j]) <= SlotLeft(graph', childIds[j + 1])
                 /\ SlotLeft(graph', childIds[1]) + SlotRight(graph', childIds[k])
                      = 2 * graph'.nodes[p].x]_vars

\* a layout has run on a tree whose start node has a child with two children
\* of its own, wider than its sibling, below a start node with a long text
C38_Witness ==
  /\ last.op \in {"addNodeBelow", "removeNode"}
  /\ last.target # graph.startNodeId
  /\ graph.nodes[graph.startNodeId].textLines = MaxTextLines
  /\ \E a, b \in NodeIds(graph) :
       /\ graph.nodes[graph.startNodeId].childIds = <<a, b>>
       /\ graph.nodes[a].y > NODE_MIN_HEIGHT + LEVEL_GAP_Y
       /\ Len(graph.nodes[a].childIds) = 2
       /\ computeWidth(graph.nodes, a) > computeWidth(graph.nodes, b)

\* what C33 compares: the node counts, the exclusion totals, the kinds and the
\* counts of the reasons, and the deltas
Settled(g) ==
  [counts |-> [id \in NodeIds(g) |-> g.nodes[id].n],
   totals |-> [i \in IntervalIds(g) |-> TotalOf(g.intervals[i])],
   reasons |-> [i \in IntervalIds(g) |->
                  IF g.intervals[i].exclusion = Null THEN <<>>
                  ELSE [k \in 1..Len(g.intervals[i].exclusion[1].reasons) |->
                          [kind |-> g.intervals[i].exclusion[1].reasons[k].kind,
                           n |-> g.intervals[i].exclusion[1].reasons[k].n]]],
   deltas |-> [i \in IntervalIds(g) |-> g.intervals[i].delta]]

\* C33 as stated: recomputeGraph reaches a fixed point in one pass: for every
\* graph g the mutation operations produce and every settings s,
\* recomputeGraph(recomputeGraph(g, s), s) has the node counts, exclusion
\* totals, reason lists (kinds and counts) and interval deltas of
\* recomputeGraph(g, s).
C33_AsStated ==
  [][(last'.op = "recomputeAgain" /\ ~last'.threw) =>
       Settled(graph') = Settled(recomputeGraph(graph, last'.settings, nextId).graph)]_vars

\* g is a chain of single-child nodes whose root count and every exclusion
\* total are defined and whose other counts are null
ChainReady(g) ==
  /\ \A id \in NodeIds(g) : Len(g.nodes[id].childIds) <= 1
  /\ g.nodes[g.startNodeId].n # Null
  /\ \A id \in NodeIds(g) \ {g.startNodeId} : g.nodes[id].n = Null
  /\ \A i \in IntervalIds(g) : TotalOf(g.intervals[i]) # Null

\* C34: in auto mode one recomputeGraph call propagates counts down a whole
\* linear chain built by addNodeBelow: when the root count and every
\* interval's exclusion total are defined and the other counts are null,
\* after the call every node of the chain has n = parent.n - exclusion.total
\* and every delta is 0.
C34_ChainPropagates ==
  [][(last'.op = "recomputeGraph" /\ ~last'.threw /\ last'.settings = AutoSettings
        /\ ChainReady(graph)) =>
       \A i \in IntervalIds(graph') :
         LET parent == graph'.nodes[graph'.intervals[i].parentId]
             child == graph'.nodes[graph'.intervals[i].childId]
         IN /\ parent.n # Null
            /\ child.n = Some(parent.n[1] - TotalOf(graph'.intervals[i])[1])
            /\ graph'.intervals[i].delta = 0]_vars

\* one recomputeGraph call in auto mode has just filled in both counts below
\* the start node of a three-node chain, the second from the first, with a
\* total of 1 on the way
C34_Witness ==
  /\ last.op = "recomputeGraph" /\ ~last.threw /\ last.settings = AutoSettings
  /\ Cardinality(NodeIds(graph)) = MaxNodes
  /\ \A id \in NodeIds(graph) : Len(graph.nodes[id].childIds) <= 1
  /\ last.filledCounts = NodeIds(graph) \ {graph.startNodeId}
  /\ \E i \in IntervalIds(graph) :
       /\ graph.intervals[i].parentId # graph.startNodeId
       /\ TotalOf(graph.intervals[i]) = Some(1)
       /\ graph.nodes[graph.intervals[i].childId].n
            = Some(graph.nodes[graph.startNodeId].n[1] - 2)

\* C35 as stated: in auto mode, when every count and exclusion total the user
\* entered is non-negative, recomputeGraph never assigns a negative count to
\* a node nor a zero or negative total to an exclusion.
C35_AsStated ==
  [][(last'.op = "recomputeGraph" /\ ~last'.threw /\ last'.settings = AutoSettings) =>
       /\ \A id \in NodeIds(graph') :
            (graph'.nodes[id].n # graph.nodes[id].n /\ graph'.nodes[id].n # Null) =>
              graph'.nodes[id].n[1] >= 0
       /\ \A i \in IntervalIds(graph') :
            (TotalOf(graph'.intervals[i]) # TotalOf(graph.intervals[i])
               /\ TotalOf(graph'.intervals[i]) # Null) =>
              TotalOf(graph'.intervals[i])[1] > 0]_vars

\* the ids of the nodes, intervals and phases of g
Entities(g) == NodeIds(g) \cup IntervalIds(g) \cup PhaseIds(g)

\* selectedId is undefined or the id of a node, an interval or a phase
Resolves(g) == g.selectedId = NoId \/ g.selectedId \in Entities(g)

\* C36: the selection resolves in the initial graph, and every operation
\* keeps it resolving as long as setSelected is called with undefined or an
\* id present in the graph, so that after any sequence of such operations
\* selectedId is undefined or the id of an existing node, interval or phase;
\* removeNode and removePhase never leave the selection on an entity they
\* removed.
C36_SelectionResolves ==
  [][/\ (/\ Resolves(graph)
         /\ last'.op = "setSelected" => last'.target \in Entities(graph) \cup {NoId})
        => Resolves(graph')
     /\ last'.op \in {"removeNode", "removePhase"} =>
          graph'.selectedId \notin Entities(graph) \ Entities(graph')]_vars

\* removePhase has just removed the selected phase from a graph that keeps
\* another phase, and the selection is on the start node
C36_Witness ==
  /\ last.op = "removePhase"
  /\ last.value = Some(last.target)
  /\ last.target \notin PhaseIds(graph)
  /\ graph.phases # <<>>
  /\ graph.selectedId = graph.startNodeId

\* C37: the store actions selectById and navigateSelection change only
\* graph.selectedId: the nodes, the intervals, the settings, history.past and
\* history.future stay what they were, so no undo step is created and the
\* redo stack is not cleared.
C37_SelectionOnly ==
  [][last'.op \in {"actions.selectById", "actions.navigateSelection"} =>
       /\ graph' = [graph EXCEPT !.selectedId = graph'.selectedId]
       /\ storeSettings' = storeSettings
       /\ history' = history]_vars

\* selectById has just put the selection on an interval while both the undo
\* and the redo stack held snapshots
C37_Witness ==
  /\ last.op = "actions.selectById"
  /\ last.target \in IntervalIds(graph)
  /\ graph.selectedId = last.target
  /\ history.past # <<>>
  /\ history.future # <<>>

====
